---------------------------- MODULE Spec2Model ----------------------------
(***************************************************************************)
(* Route-pooling matcher of the airport cab-pooling backend.               *)
(*                                                                         *)
(* The model follows RedisPoolingService (src/src/routes/findRide.ts,      *)
(* lines 855-1444), the worker message handler (src/unnamed/part_000,      *)
(* lines 186-238) and the WebSocket handler (findRide.ts, lines 59-195).   *)
(* Every await on a Redis call, a Trip Store call, the routing API or the  *)
(* notification bus is one step of a task; local computation between two   *)
(* awaits belongs to the step of the preceding await.                      *)
(***************************************************************************)
EXTENDS Integers, Sequences, FiniteSets, TLC

(***************************************************************************)
(* Bounds of the model.                                                    *)
(***************************************************************************)
\* tasks started in one behaviour of the interleaved specification
MaxTasks == 3
\* tasks started in one behaviour of the serial specification
MaxSeqTasks == 3
MaxInits == 2
MaxCancels == 2

(***************************************************************************)
(* Program constants.                                                      *)
(***************************************************************************)
LUGGAGE_CAPACITY == 4
MAX_PASSENGERS == 3
\* LIMIT { offset: 0, count: 5 } of the three lex-range scans
SCAN_LIMIT == 5
\* detour threshold in metres
DETOUR_MAX_M == 3000
\* distance reported by fetchRouteDistance when the routing API fails
DETOUR_ERROR_M == 9999999
\* issued_price of a registration; the prices derived from it by the factor
\* 0.3 are 150 and 45, a trip of three passengers being never extended
BASE_PRICE == 500

(***************************************************************************)
(* Identifiers.  A user id is <<"user", n>>; a trip key `TRIP${uuid}` is   *)
(* <<"TRIP", n>> with n the number of the uuid drawn; the id of a durable  *)
(* Trips row, generated by the Trip Store, is <<"db", n>>.                 *)
(***************************************************************************)
User(n) == <<"user", n>>
TripKey(n) == <<"TRIP", n>>
DbId(n) == <<"db", n>>
Users == {User(1), User(2), User(3), User(4)}
\* `c.includes('TRIP')` on a member `<route>::<id>`: routes are hex digits
IncludesTRIP(m) == m.id[1] = "TRIP"
\* `c.includes(user_id)` on a member `<route>::<id>`
IncludesUser(m, user_id) == m.id = user_id

(***************************************************************************)
(* Routes.  A route string is the concatenation of 15-character H3 cells   *)
(* of resolution 8; every such cell starts with the digit '8', which sorts *)
(* below ':' .  A member `<route>::<id>` is therefore compared as the      *)
(* sequence of its cells, then the separator (above every cell), then the  *)
(* id.  Cells are 1..3.                                                    *)
(***************************************************************************)
\* number of worker threads: the smallest default pool
PoolSize == 2
SEP == 100
XFF == 200
\* trip keys start with 'T', seeded user ids with 'u'
IdKey(id) == IF id[1] = "TRIP" THEN <<1, id[2]>> ELSE <<2, id[2]>>
MemberKey(m) == m.route \o <<SEP>> \o IdKey(m.id)
Member(route, id) == [route |-> route, id |-> id]

RECURSIVE LexLeq(_, _)
LexLeq(a, b) ==
    IF a = <<>> THEN TRUE
    ELSE IF b = <<>> THEN FALSE
    ELSE IF Head(a) < Head(b) THEN TRUE
    ELSE IF Head(a) > Head(b) THEN FALSE
    ELSE LexLeq(Tail(a), Tail(b))

\* String.prototype.startsWith on route strings: p is a prefix of s
StartsWith(s, p) == Len(p) =< Len(s) /\ SubSeq(s, 1, Len(p)) = p

RECURSIVE SortAsc(_)
SortAsc(S) ==
    IF S = {} THEN <<>>
    ELSE LET m == CHOOSE x \in S : \A y \in S : LexLeq(MemberKey(x), MemberKey(y))
         IN <<m>> \o SortAsc(S \ {m})

RECURSIVE Reverse(_)
Reverse(s) == IF s = <<>> THEN <<>> ELSE Reverse(Tail(s)) \o <<Head(s)>>

Take(s, n) == SubSeq(s, 1, IF Len(s) < n THEN Len(s) ELSE n)

\* ZRANGE key [lo [hi BYLEX LIMIT 0 count
ZRangeByLex(z, lo, hi, count) ==
    Take(SortAsc({m \in z : LexLeq(lo, MemberKey(m)) /\ LexLeq(MemberKey(m), hi)}), count)
\* ZRANGE key [hi - BYLEX REV LIMIT 0 count
ZRevRangeBelow(z, hi, count) ==
    Take(Reverse(SortAsc({m \in z : LexLeq(MemberKey(m), hi)})), count)
\* ZRANGE key [lo + BYLEX LIMIT 0 count
ZRangeAbove(z, lo, count) ==
    Take(SortAsc({m \in z : LexLeq(lo, MemberKey(m))}), count)

RECURSIVE FilterNeighbors(_, _)
\* filter(c => !c.includes(user_id) && !c.includes('TRIP'))
FilterNeighbors(s, user_id) ==
    IF s = <<>> THEN <<>>
    ELSE (IF ~IncludesUser(Head(s), user_id) /\ ~IncludesTRIP(Head(s))
          THEN <<Head(s)>> ELSE <<>>) \o FilterNeighbors(Tail(s), user_id)

RECURSIVE FindNotSelf(_, _)
\* supersetCandidates.find(c => !c.includes(user_id)); <<>> when undefined
FindNotSelf(s, user_id) ==
    IF s = <<>> THEN <<>>
    ELSE IF ~IncludesUser(Head(s), user_id) THEN <<Head(s)>>
    ELSE FindNotSelf(Tail(s), user_id)

RECURSIVE CommonCells(_, _)
\* the loop `for (i = 0; i < minLen; i += 15)`: splitIndex / 15
CommonCells(a, b) ==
    IF a = <<>> \/ b = <<>> THEN 0
    ELSE IF Head(a) # Head(b) THEN 0
    ELSE 1 + CommonCells(Tail(a), Tail(b))

(***************************************************************************)
(* Values.                                                                 *)
(***************************************************************************)
Null == [null |-> TRUE]
NoId == <<"none", 0>>
NoMember == Member(<<>>, NoId)
NoneResult == [match_type |-> "NONE"]
\* `'users' in data`
HasUsers(data) == "users" \in DOMAIN data

PassengerMetaData(pax, lug) ==
    [no_of_passengers |-> pax, luggage |-> lug, status |-> "WAITING",
     issued_price |-> BASE_PRICE]

\* Math.ceil(a / b) for a >= 0, b > 0
CeilDiv(a, b) == (a + b - 1) \div b

(***************************************************************************)
(* State.                                                                  *)
(***************************************************************************)
VARIABLES
    zset,        \* members of the sorted set h3:airport_pool
    meta,        \* the string keys of the Pool Store: key -> parsed JSON value
    uuids,       \* number of trip keys minted by randomUUID
    task,        \* the tasks in flight, one per slot
    started,     \* number of tasks started so far
    dbTrips,     \* Trips rows with their RideRequests
    cabs,        \* Cabs rows
    published,   \* messages accepted by the notification bus, in order
    snap,        \* history: the stores as they were when the slot's task started
    isReady,          \* WorkerPool.isReady
    nextWorkerIndex,  \* WorkerPool.nextWorkerIndex
    taskIdCounter,    \* WorkerPool.taskIdCounter
    pendingTasks,     \* WorkerPool.pendingTasks: task id and the slot that runs it
    posted,      \* history: the postMessage calls, task id and worker index
    workers,     \* WorkerPool.workers, each with the state of its readyPromise
    initPc,      \* the last call of init(): none, waiting, resolved or rejected
    inits,       \* number of calls of init() that created workers
    sinceInit,   \* history: tasks submitted since init() last resolved
    settled,     \* history: per task id, how its promise was settled
    thrown,      \* history: number of execute() calls that threw
    cancel,      \* the POST /cancel requests in flight, one per cancel slot
    cancels,     \* number of POST /cancel requests received so far
    queued,      \* messages posted for the cancel route, not yet handled
    h3,          \* the call of generateH3IndexesForRoute in flight
    startRide,       \* the POST /start request in flight
    starts,      \* number of POST /start requests received so far
    otp,         \* the users whose Users row holds an unexpired ride_otp
    callbacks,   \* pubSubService.callbacks: userId -> the connection of its callback
    listeners,   \* number of listeners the subscriber holds on each user's channel
    conn,        \* the WebSocket connections and their open and close handlers
    wsPublished  \* the topics of the messages published to the connections so far

poolVars == <<zset, meta, uuids>>
dbVars == <<dbTrips, cabs>>
wpVars == <<isReady, nextWorkerIndex, taskIdCounter, pendingTasks, posted,
            workers, initPc, inits, sinceInit, settled, thrown>>
cancelVars == <<cancel, cancels, queued>>
h3Vars == <<h3>>
coreVars == <<poolVars, task, started, dbVars, published, snap, wpVars>>
startVars == <<startRide, starts, otp>>
wsVars == <<callbacks, listeners, conn, wsPublished>>
moreVars == <<h3Vars, startVars, wsVars>>
restVars == <<cancelVars, moreVars>>
vars == <<zset, meta, uuids, task, started, dbTrips, cabs, published, snap,
          isReady, nextWorkerIndex, taskIdCounter, pendingTasks, posted,
          workers, initPc, inits, sinceInit, settled, thrown,
          cancel, cancels, queued, h3, startRide, starts, otp,
          callbacks, listeners, conn, wsPublished>>

Slots == {1, 2}
CancelSlots == {1, 2}
IdleCancel == [pc |-> "idle", user_id |-> NoId, trip |-> Null, reply |-> 0]
\* the WebSocket connections: two of User(1), one after the other or at the
\* same time, and one of User(2)
Conns == {1, 2, 3}
UserOf(c) == IF c = 3 THEN User(2) ELSE User(1)
\* a connection that has not been opened
NewConn == [readyState |-> "connecting", open |-> "idle", close |-> "idle", received |-> 0]
\* no POST /start request is in flight
IdleStart == [pc |-> "idle", trip |-> Null, reply |-> 0]
\* no call of generateH3IndexesForRoute has been made
IdleCall ==
    [pc |-> "idle", destinationH3 |-> 0, fillGaps |-> FALSE,
     routeH3Indexes |-> <<>>, pathH3Indexes |-> <<>>]
\* rows of the Users table; User(4) has no row
DbUsers == {User(1), User(2), User(3)}

\* client.get(key): the value, or null
Get(key) == IF key \in DOMAIN meta THEN meta[key] ELSE Null
\* client.set(key, value)
SetKey(m, key, value) ==
    [k \in DOMAIN m \cup {key} |-> IF k = key THEN value ELSE m[k]]
\* client.del(keys)
DelKeys(m, keys) == [k \in DOMAIN m \ keys |-> m[k]]

IdleTask ==
    [pc |-> "idle", type |-> "NONE", user_id |-> NoId, route |-> <<>>,
     userMetaData |-> Null, nbrs |-> <<>>, idx |-> 0, step |-> "0",
     minDetour |-> DETOUR_ERROR_M + 1, detour |-> 0, cand |-> NoMember,
     data |-> Null, sealed |-> FALSE, tripKey |-> NoId, tripMetaData |-> Null,
     dbTripId |-> NoId, fullTrip |-> Null, result |-> NoneResult,
     userMembers |-> {},
     \* history: the calls of checkMatchConstraints and their outcomes, whether
     \* the publish was accepted, and whether another call has removed the
     \* member or the key this task registered
     log |-> <<>>, pubOk |-> FALSE, recGone |-> FALSE, metaGone |-> FALSE]

(***************************************************************************)
(* Trip Store.  A Trips row carries its RideRequests rows.                 *)
(***************************************************************************)
InitCabs ==
    [c \in {1, 2} |->
        IF c = 1
        THEN [status |-> "AVAILABLE", no_of_seats |-> 3, luggage_capacity |-> 3]
        ELSE [status |-> "AVAILABLE", no_of_seats |-> 4, luggage_capacity |-> 5]]

\* tx.cabs.findFirst({where: AVAILABLE, seats >= pax, luggage >= lug},
\*                   orderBy no_of_seats asc); 0 when none
AvailableCab(cb, pax, lug) ==
    LET ok == {c \in DOMAIN cb : /\ cb[c].status = "AVAILABLE"
                                 /\ cb[c].no_of_seats >= pax
                                 /\ cb[c].luggage_capacity >= lug}
    IN IF ok = {} THEN 0
       ELSE CHOOSE c \in ok : \A d \in ok :
                \/ cb[c].no_of_seats < cb[d].no_of_seats
                \/ (cb[c].no_of_seats = cb[d].no_of_seats /\ c =< d)

\* tx.trips.findFirst({where: {id}}): the index of the row, 0 when none
FindTrip(trips, id) ==
    IF \E i \in 1..Len(trips) : trips[i].id = id
    THEN CHOOSE i \in 1..Len(trips) : trips[i].id = id
    ELSE 0

RideRequest(user_id, pax, lug, price, status) ==
    [user_id |-> user_id, no_of_passengers |-> pax, luggage_capacity |-> lug,
     issued_price |-> price, status |-> status]

TripRow(id, status, fare, pax, lug, cab, rrs) ==
    [id |-> id, status |-> status, fare_each |-> fare, no_of_passengers |-> pax,
     total_luggage |-> lug, cab_id |-> cab, rideRequests |-> rrs]

RECURSIVE BackfillRideRequests(_, _, _)
\* the loop over existingTripData.users: rows for the users that exist
BackfillRideRequests(users, status, fare) ==
    IF users = <<>> THEN <<>>
    ELSE (IF Head(users).id \in DbUsers
          THEN <<RideRequest(Head(users).id, Head(users).meta.no_of_passengers,
                             Head(users).meta.luggage, fare, status)>>
          ELSE <<>>) \o BackfillRideRequests(Tail(users), status, fare)

\* updateMany({where: {trip_id}, data: {status, issued_price}})
SyncRideRequests(rrs, status, fare) ==
    [i \in 1..Len(rrs) |-> [rrs[i] EXCEPT !.status = status, !.issued_price = fare]]

BookCab(cb, cab, status) ==
    IF status = "ACTIVE" /\ cab # 0
    THEN [cb EXCEPT ![cab].status = "BOOKED"]
    ELSE cb

\* the transaction of persistMatchToDatabase: the stores after it and the
\* id it returns (NoId for null)
PersistTx(trips, cb, tm, reqId, reqMeta, matchedId, matchedData, isExistingTrip) ==
    LET unchanged == [trips |-> trips, cabs |-> cb, id |-> NoId]
        cab == AvailableCab(cb, tm.no_of_passengers, tm.luggage)
        fareEach == CeilDiv(tm.issued_price, Len(tm.users))
        newId == DbId(Len(trips) + 1)
        reqRow == RideRequest(reqId, reqMeta.no_of_passengers, reqMeta.luggage,
                              fareEach, tm.status)
    IN
    IF reqId \notin DbUsers THEN unchanged
    ELSE IF isExistingTrip THEN
        LET found == FindTrip(trips, matchedData.trip_id)
            \* the row created when the trip is not found, with its backfill
            fresh == TripRow(newId, tm.status, fareEach, tm.no_of_passengers,
                             tm.luggage, cab,
                             BackfillRideRequests(matchedData.users, tm.status, fareEach))
            trips1 == IF found = 0 THEN Append(trips, fresh) ELSE trips
            at == IF found = 0 THEN Len(trips1) ELSE found
            existing == trips1[at]
            duplicate == \E i \in 1..Len(existing.rideRequests) :
                            existing.rideRequests[i].user_id = reqId
            updated == [existing EXCEPT
                          !.status = tm.status,
                          !.fare_each = fareEach,
                          !.no_of_passengers = tm.no_of_passengers,
                          !.total_luggage = tm.luggage,
                          !.cab_id = IF cab # 0 THEN cab ELSE existing.cab_id,
                          !.rideRequests =
                              SyncRideRequests(Append(existing.rideRequests, reqRow),
                                               tm.status, fareEach)]
        IN IF duplicate
           THEN [trips |-> trips1, cabs |-> cb, id |-> existing.id]
           ELSE [trips |-> [trips1 EXCEPT ![at] = updated],
                 cabs |-> BookCab(cb, cab, tm.status), id |-> existing.id]
    ELSE IF matchedId \notin DbUsers THEN unchanged
    ELSE [trips |-> Append(trips,
                       TripRow(newId, tm.status, fareEach, tm.no_of_passengers,
                               tm.luggage, cab,
                               <<RideRequest(matchedId, matchedData.no_of_passengers,
                                             matchedData.luggage, fareEach, tm.status),
                                 reqRow>>)),
          cabs |-> BookCab(cb, cab, tm.status), id |-> newId]

\* persistMatchToDatabase: the transaction, or null when it throws
PersistMatchToDatabase(trips, cb, tm, reqId, reqMeta, matchedId, matchedData, isExistingTrip, throws) ==
    IF throws THEN [trips |-> trips, cabs |-> cb, id |-> NoId]
    ELSE PersistTx(trips, cb, tm, reqId, reqMeta, matchedId, matchedData, isExistingTrip)

\* prisma.trips.findUnique({where: {id}}): the row or null
FindUniqueTrip(trips, id) ==
    IF FindTrip(trips, id) = 0 THEN Null ELSE trips[FindTrip(trips, id)]

(***************************************************************************)
(* Matching: the local computation between two awaits.                     *)
(***************************************************************************)
\* index of the first neighbour from i on that Step 1 Check B tries, or 0
Next1b(nbrs, i, route) ==
    LET J == {j \in i..Len(nbrs) : StartsWith(route, nbrs[j].route)}
    IN IF J = {} THEN 0 ELSE CHOOSE j \in J : \A k \in J : j =< k

\* index of the first neighbour from i on whose splitIndex is not 0, or 0
Next2(nbrs, i, route) ==
    LET J == {j \in i..Len(nbrs) : CommonCells(route, nbrs[j].route) > 0}
    IN IF J = {} THEN 0 ELSE CHOOSE j \in J : \A k \in J : j =< k

\* the task once it has returned: its inputs, what it returns and its
\* history; its other locals are dead
Finished(t, result) ==
    [IdleTask EXCEPT !.pc = "done", !.type = t.type, !.user_id = t.user_id,
                     !.route = t.route, !.userMetaData = t.userMetaData,
                     !.cand = t.cand, !.dbTripId = t.dbTripId,
                     !.result = result, !.log = t.log, !.pubOk = t.pubOk,
                     !.recGone = t.recGone, !.metaGone = t.metaGone]

\* the Step 2 loop from neighbour i on, up to its next await or its end
Continue2(t, i) ==
    LET j == Next2(t.nbrs, i, t.route)
    IN IF j > 0
       THEN [t EXCEPT !.pc = "detour", !.step = "2", !.idx = j, !.cand = t.nbrs[j]]
       ELSE Finished(t, NoneResult)

\* the Step 1 Check B loop from neighbour i on, then Step 2
Continue1b(t, i) ==
    LET j == Next1b(t.nbrs, i, t.route)
    IN IF j > 0
       THEN [t EXCEPT !.pc = "cmGet", !.step = "1b", !.idx = j, !.cand = t.nbrs[j]]
       ELSE Continue2(t, 1)

\* where matchUserWithAvaialbleTrip goes on when checkMatchConstraints
\* returned false
AfterCheckFalse(t) ==
    IF t.step = "1a" THEN [t EXCEPT !.pc = "scanPred"]
    ELSE IF t.step = "1b" THEN Continue1b(t, t.idx + 1)
    ELSE Continue2(t, t.idx + 1)

\* the object matchUserWithAvaialbleTrip returns on a match
MatchResult(t, fullTrip) ==
    IF t.step = "2"
    THEN [match_type |-> "BEST_DETOUR", user_id |-> t.cand.id,
          detour_distance_meters |-> t.detour,
          split_point_h3 |-> t.route[CommonCells(t.route, t.cand.route)],
          trip_id |-> t.tripKey, trip |-> fullTrip]
    ELSE [match_type |-> "DIRECT", user_id |-> t.cand.id,
          trip_id |-> t.tripKey, trip |-> fullTrip]

\* faulty variant of OverCapacity: the passenger sum is not tested
OverCapacityLuggageOnly(data, req) ==
    data.luggage + req.luggage > LUGGAGE_CAPACITY

\* the capacity test of checkMatchConstraints: TRUE when the pair is refused
OverCapacity(data, req) ==
    \/ data.luggage + req.luggage > LUGGAGE_CAPACITY
    \/ data.no_of_passengers + req.no_of_passengers > MAX_PASSENGERS

\* faulty variant of Sealed: a trip with full luggage is not full
SealedBySeats(data, req) ==
    data.no_of_passengers + req.no_of_passengers = MAX_PASSENGERS

\* `status` of checkMatchConstraints: the trip is full
Sealed(data, req) ==
    \/ data.luggage + req.luggage = LUGGAGE_CAPACITY
    \/ data.no_of_passengers + req.no_of_passengers = MAX_PASSENGERS

\* the member storeTripRoute adds: the first assignment to tripRoute is
\* overwritten by the second, whichever route is longer
StoreTripRouteMember(requestingRoute, matchedRoute, tripKey) ==
    Member(matchedRoute, tripKey)

UserEntry(id, m) == [id |-> id, meta |-> m]

\* tripMetaData as checkMatchConstraints builds it
BuildTripMetaData(tripKey, matchedUserId, data, requestingUserId, req, sealed) ==
    [trip_id |-> tripKey,
     users |-> IF HasUsers(data)
               THEN Append(data.users, UserEntry(requestingUserId, req))
               ELSE <<UserEntry(matchedUserId, data), UserEntry(requestingUserId, req)>>,
     luggage |-> data.luggage + req.luggage,
     no_of_passengers |-> data.no_of_passengers + req.no_of_passengers,
     status |-> IF sealed THEN "ACTIVE" ELSE "WAITING",
     issued_price |-> (data.issued_price * 3) \div 10]

Snapshot ==
    [zset |-> zset, meta |-> meta, dbTrips |-> dbTrips, cabs |-> cabs,
     published |-> published]

LogEntry(t, outcome) == [step |-> t.step, peer |-> t.cand.id, outcome |-> outcome]

(***************************************************************************)
(* Inputs.                                                                 *)
(***************************************************************************)
Request(user_id, route, pax, lug) ==
    [user_id |-> user_id, route |-> route, pax |-> pax, lug |-> lug]

\* the requests of the serial specification
SeqRequests ==
    {Request(User(1), r, 1, l) : r \in {<<1>>, <<1, 2>>}, l \in {1, 3}}
    \cup {Request(User(2), r, 1, l) : r \in {<<1, 2>>, <<1, 3>>}, l \in {1, 3}}
    \cup {Request(User(3), r, p, 1) : r \in {<<1, 3>>, <<2>>}, p \in {1, 2}}
    \cup {Request(User(4), <<1, 3>>, 1, 1), Request(User(3), <<2>>, 4, 1)}

\* a REGISTER_RIDE payload without no_of_passengers
InvalidRequests == {Request(User(1), <<1>>, 0, 1)}

\* the requests of the interleaved specification
Requests ==
    {Request(User(1), r, 1, 1) : r \in {<<1>>, <<1, 2>>}}
    \cup {Request(User(2), <<1, 2>>, 1, 1), Request(User(3), <<1, 3>>, 1, 1)}

\* the users the interleaved specification removes or disconnects
RemovedUsers == {User(1)}

\* distances the routing API reports, and the value used when it fails
DetourChoices == {1500, 2500, 3500, DETOUR_ERROR_M}
\* the failures the serial specification injects: the Trip Store transaction
\* throws, the publish is refused
Failures == BOOLEAN
\* the interleaved specification injects no failure and has one distance on
\* each side of the threshold
NoFailure == {FALSE}
FewDetours == {1500, 3500}

Set(s, t) == [task EXCEPT ![s] = t]

\* history: the tasks other than s whose registered member is among
\* `members`, or whose registered key is among `keys`, have lost it
MarkGone(tk, s, members, keys) ==
    [x \in Slots |->
        IF x = s \/ tk[x].type # "MATCH_RIDE" THEN tk[x]
        ELSE [tk[x] EXCEPT
                !.recGone = @ \/ (/\ tk[x].pc \notin {"setMeta", "zadd"}
                                  /\ Member(tk[x].route, tk[x].user_id) \in members),
                !.metaGone = @ \/ (tk[x].pc # "setMeta" /\ tk[x].user_id \in keys)]]
\* a slot is free before its first task and once its task has replied; the
\* reply (postMessage, ws.send) is part of the task's last step, and the slot
\* shows the finished task until the next one takes it
Free(s) == task[s].pc \in {"idle", "done"}
AllIdle == \A s \in Slots : Free(s)
\* a new task takes the first free slot
FreeSlot(s) == Free(s) /\ \A x \in Slots : x < s => ~Free(x)

Init ==
    /\ zset = {}
    /\ meta = <<>>
    /\ uuids = 0
    /\ task = [s \in Slots |-> IdleTask]
    /\ started = 0
    /\ dbTrips = <<>>
    /\ cabs = InitCabs
    /\ published = <<>>
    /\ snap = [s \in Slots |-> Null]
    /\ isReady = FALSE
    /\ nextWorkerIndex = 0
    /\ taskIdCounter = 0
    /\ pendingTasks = {}
    /\ posted = <<>>
    /\ workers = <<>>
    /\ initPc = "none"
    /\ inits = 0
    /\ sinceInit = 0
    /\ settled = <<>>
    /\ thrown = 0
    /\ cancel = [c \in CancelSlots |-> IdleCancel]
    /\ cancels = 0
    /\ queued = <<>>
    /\ h3 = IdleCall
    /\ startRide = IdleStart
    /\ starts = 0
    /\ otp = {}
    /\ callbacks = <<>>
    /\ listeners = [u \in Users |-> 0]
    /\ conn = [c \in Conns |-> NewConn]
    /\ wsPublished = <<>>

(***************************************************************************)
(* MATCH_RIDE (worker) and REGISTER_RIDE (WebSocket): register, then match *)
(***************************************************************************)
StartMatch(s, user_id, route, pax, lug, sn) ==
    /\ Free(s)
    /\ task' = Set(s, [IdleTask EXCEPT !.pc = "setMeta", !.type = "MATCH_RIDE",
                          !.user_id = user_id, !.route = route,
                          !.userMetaData = PassengerMetaData(pax, lug)])
    /\ started' = started + 1
    /\ snap' = [snap EXCEPT ![s] = sn]
    /\ UNCHANGED <<poolVars, dbVars, published>>

StorePassengerMetaData(s) ==
    /\ task[s].pc = "setMeta"
    /\ meta' = SetKey(meta, task[s].user_id, task[s].userMetaData)
    /\ task' = Set(s, [task[s] EXCEPT !.pc = "zadd"])
    /\ UNCHANGED <<zset, uuids, started, dbVars, published, snap>>

\* faulty variant of StoreRouteH3Index: the scan starts without the zAdd
StoreRouteH3IndexSkipped(s) ==
    /\ task[s].pc = "zadd"
    /\ task' = Set(s, [task[s] EXCEPT !.pc = "scan1a"])
    /\ UNCHANGED <<poolVars, started, dbVars, published, snap>>

StoreRouteH3Index(s) ==
    /\ task[s].pc = "zadd"
    /\ zset' = zset \cup {Member(task[s].route, task[s].user_id)}
    /\ task' = Set(s, [task[s] EXCEPT !.pc = "scan1a"])
    /\ UNCHANGED <<meta, uuids, started, dbVars, published, snap>>

\* STEP 1 Check A: the superset scan and the choice of perfectLongMatch
ScanSuperset(s) ==
    LET t == task[s]
        found == FindNotSelf(ZRangeByLex(zset, t.route, t.route \o <<XFF>>, SCAN_LIMIT),
                             t.user_id)
    IN /\ t.pc = "scan1a"
       /\ task' = Set(s, IF found # <<>>
                         THEN [t EXCEPT !.pc = "cmGet", !.step = "1a", !.cand = found[1]]
                         ELSE [t EXCEPT !.pc = "scanPred"])
       /\ UNCHANGED <<poolVars, started, dbVars, published, snap>>

ScanPredecessors(s) ==
    LET t == task[s]
    IN /\ t.pc = "scanPred"
       /\ task' = Set(s, [t EXCEPT !.pc = "scanSucc",
                                   !.nbrs = ZRevRangeBelow(zset, t.route, SCAN_LIMIT)])
       /\ UNCHANGED <<poolVars, started, dbVars, published, snap>>

\* the successor scan, the filter to allNeighbors, and Step 1 Check B up to
\* its first call of checkMatchConstraints
ScanSuccessors(s) ==
    LET t == task[s]
        all == FilterNeighbors(t.nbrs \o ZRangeAbove(zset, t.route, SCAN_LIMIT), t.user_id)
    IN /\ t.pc = "scanSucc"
       /\ task' = Set(s, Continue1b([t EXCEPT !.nbrs = all], 1))
       /\ UNCHANGED <<poolVars, started, dbVars, published, snap>>

\* faulty variant of FetchRouteDistance: any distance below the best seen so
\* far is accepted
FetchRouteDistanceNoThreshold(s, detours) ==
    LET t == task[s]
    IN /\ t.pc = "detour"
       /\ \E d \in detours :
            task' = Set(s, IF d < t.minDetour
                           THEN [t EXCEPT !.pc = "cmGet", !.detour = d, !.minDetour = d]
                           ELSE Continue2(t, t.idx + 1))
       /\ UNCHANGED <<poolVars, started, dbVars, published, snap>>

\* Step 2: the distance lookup of one candidate and the threshold test
FetchRouteDistance(s, detours) ==
    LET t == task[s]
    IN /\ t.pc = "detour"
       /\ \E d \in detours :
            task' = Set(s, IF d < DETOUR_MAX_M /\ d < t.minDetour
                           THEN [t EXCEPT !.pc = "cmGet", !.detour = d, !.minDetour = d]
                           ELSE Continue2(t, t.idx + 1))
       /\ UNCHANGED <<poolVars, started, dbVars, published, snap>>

(***************************************************************************)
(* checkMatchConstraints, one step per await                               *)
(***************************************************************************)
\* client.get(matchedUserId), the capacity test and `status`
CmGet(s) ==
    LET t == task[s]
        data == Get(t.cand.id)
    IN /\ t.pc = "cmGet"
       /\ task' = Set(s,
            IF data = Null
            THEN AfterCheckFalse([t EXCEPT !.log = Append(@, LogEntry(t, "stale"))])
            ELSE IF OverCapacity(data, t.userMetaData)
            THEN AfterCheckFalse([t EXCEPT !.log = Append(@, LogEntry(t, "rejected"))])
            ELSE [t EXCEPT !.pc = "cmZrem", !.data = data,
                           !.sealed = Sealed(data, t.userMetaData)])
       /\ UNCHANGED <<poolVars, started, dbVars, published, snap>>

\* client.zRem(POOL_KEY, [requestingUserRouteSignature, matchedUserSignature])
CmZrem(s) ==
    LET t == task[s]
        gone == {Member(t.route, t.user_id), t.cand}
    IN /\ t.pc = "cmZrem"
       /\ zset' = zset \ gone
       /\ task' = MarkGone(Set(s, [t EXCEPT !.pc = "cmDel",
                                       !.log = Append(@, LogEntry(t, "committed"))]),
                           s, gone, {})
       /\ UNCHANGED <<meta, uuids, started, dbVars, published, snap>>

\* faulty variant of CmDel: the trip route is stored whether or not the trip
\* is full
CmDelAlwaysOpen(s) ==
    LET t == task[s]
        gone == {t.cand.id, t.user_id}
    IN /\ t.pc = "cmDel"
       /\ meta' = DelKeys(meta, gone)
       /\ uuids' = uuids + 1
       /\ task' = MarkGone(Set(s, [t EXCEPT !.pc = "cmTripRoute",
                                           !.tripKey = TripKey(uuids + 1)]),
                           s, {}, gone)
       /\ UNCHANGED <<zset, started, dbVars, published, snap>>

\* client.del([matchedUserId, requestingUserId]), then randomUUID
CmDel(s) ==
    LET t == task[s]
        gone == {t.cand.id, t.user_id}
    IN /\ t.pc = "cmDel"
       /\ meta' = DelKeys(meta, gone)
       /\ uuids' = uuids + 1
       /\ task' = MarkGone(Set(s, [t EXCEPT
                                !.pc = IF t.sealed THEN "cmTripMeta" ELSE "cmTripRoute",
                                !.tripKey = TripKey(uuids + 1)]),
                           s, {}, gone)
       /\ UNCHANGED <<zset, started, dbVars, published, snap>>

\* storeTripRoute, called when the trip is not full
CmStoreTripRoute(s) ==
    LET t == task[s]
    IN /\ t.pc = "cmTripRoute"
       /\ zset' = zset \cup {StoreTripRouteMember(t.route, t.cand.route, t.tripKey)}
       /\ task' = Set(s, [t EXCEPT !.pc = "cmTripMeta"])
       /\ UNCHANGED <<meta, uuids, started, dbVars, published, snap>>

\* the message published to the peer's channel
RideMatched(topic, trip) == [topic |-> topic, type |-> "RIDE_MATCHED", trip |-> trip]

\* faulty variant of CmStoreTripMetaData: the peer is notified as soon as the
\* trip metadata is written, before the Trip Store is called
CmStoreTripMetaDataNotifying(s) ==
    LET t == task[s]
        tm == BuildTripMetaData(t.tripKey, t.cand.id, t.data, t.user_id,
                                t.userMetaData, t.sealed)
    IN /\ t.pc = "cmTripMeta"
       /\ meta' = SetKey(meta, t.tripKey, tm)
       /\ published' = Append(published, RideMatched(t.cand.id, Null))
       /\ task' = Set(s, [t EXCEPT !.pc = "cmPersist", !.tripMetaData = tm])
       /\ UNCHANGED <<zset, uuids, started, dbVars, snap>>

\* storeTripMetaData
CmStoreTripMetaData(s) ==
    LET t == task[s]
        tm == BuildTripMetaData(t.tripKey, t.cand.id, t.data, t.user_id,
                                t.userMetaData, t.sealed)
    IN /\ t.pc = "cmTripMeta"
       /\ meta' = SetKey(meta, t.tripKey, tm)
       /\ task' = Set(s, [t EXCEPT !.pc = "cmPersist", !.tripMetaData = tm])
       /\ UNCHANGED <<zset, uuids, started, dbVars, published, snap>>

\* faulty variant of CmPersist: a null id makes checkMatchConstraints
\* return false
CmPersistOrReject(s, failures) ==
    LET t == task[s]
    IN /\ t.pc = "cmPersist"
       /\ \E throws \in failures :
            LET r == PersistMatchToDatabase(dbTrips, cabs, t.tripMetaData, t.user_id,
                         t.userMetaData, t.cand.id, t.data, HasUsers(t.data), throws)
            IN /\ dbTrips' = r.trips
               /\ cabs' = r.cabs
               /\ task' = Set(s, IF r.id = NoId THEN AfterCheckFalse(t)
                                 ELSE [t EXCEPT !.dbTripId = r.id, !.pc = "cmFull"])
       /\ UNCHANGED <<poolVars, started, published, snap>>

\* persistMatchToDatabase
CmPersist(s, failures) ==
    LET t == task[s]
    IN /\ t.pc = "cmPersist"
       /\ \E throws \in failures :
            LET r == PersistMatchToDatabase(dbTrips, cabs, t.tripMetaData, t.user_id,
                         t.userMetaData, t.cand.id, t.data, HasUsers(t.data), throws)
            IN /\ dbTrips' = r.trips
               /\ cabs' = r.cabs
               /\ task' = Set(s, [t EXCEPT !.dbTripId = r.id,
                                    !.pc = IF r.id = NoId THEN "cmPublish" ELSE "cmFull"])
       /\ UNCHANGED <<poolVars, started, published, snap>>

\* prisma.trips.findUnique for the full trip
CmFullTrip(s) ==
    LET t == task[s]
    IN /\ t.pc = "cmFull"
       /\ task' = Set(s, [t EXCEPT !.pc = "cmPublish",
                                   !.fullTrip = FindUniqueTrip(dbTrips, t.dbTripId)])
       /\ UNCHANGED <<poolVars, started, dbVars, published, snap>>

\* faulty variant of CmPublish: a refused publish is not caught and makes
\* checkMatchConstraints return false
CmPublishUncaught(s, failures) ==
    LET t == task[s]
    IN /\ t.pc = "cmPublish"
       /\ \E refused \in failures :
            /\ published' = IF ~refused THEN Append(published, RideMatched(t.cand.id, t.fullTrip))
                            ELSE published
            /\ task' = Set(s, IF refused THEN AfterCheckFalse(t)
                              ELSE Finished([t EXCEPT !.pubOk = TRUE],
                                            MatchResult(t, t.fullTrip)))
       /\ UNCHANGED <<poolVars, started, dbVars, snap>>

\* faulty variant of CmPublish: the caller does not return on a match and
\* goes on with its next candidate
CmPublishAndGoOn(s, failures) ==
    LET t == task[s]
    IN /\ t.pc = "cmPublish"
       /\ \E refused \in failures :
            /\ published' = IF ~refused THEN Append(published, RideMatched(t.cand.id, t.fullTrip))
                            ELSE published
            /\ task' = Set(s, AfterCheckFalse([t EXCEPT !.pubOk = ~refused]))
       /\ UNCHANGED <<poolVars, started, dbVars, snap>>

\* pubSubService.publish(matchedUserId, ...).catch(...), then both returns
CmPublish(s, failures) ==
    LET t == task[s]
    IN /\ t.pc = "cmPublish"
       /\ \E refused \in failures :
            /\ published' = IF ~refused THEN Append(published, RideMatched(t.cand.id, t.fullTrip))
                            ELSE published
            /\ task' = Set(s, Finished([t EXCEPT !.pubOk = ~refused],
                                        MatchResult(t, t.fullTrip)))
       /\ UNCHANGED <<poolVars, started, dbVars, snap>>

(***************************************************************************)
(* REGISTER_RIDE (WebSocket): validation and route computation, then the   *)
(* registration and the match.  generateH3IndexesForRoute reads nothing of *)
(* the stores, so its await is part of the first step.                     *)
(***************************************************************************)
\* the test of the required fields: 0 stands for a missing no_of_passengers
ValidPayload(q) == ~(q.pax = 0)

\* ws.send({ type: 'ERROR', message })
ErrorReply(message) == [type |-> "ERROR", message |-> message]

ReplyError(s, user_id, message, sn) ==
    /\ Free(s)
    /\ task' = Set(s, [IdleTask EXCEPT !.pc = "done", !.type = "REGISTER_RIDE",
                                       !.user_id = user_id,
                                       !.result = ErrorReply(message)])
    /\ started' = started + 1
    /\ snap' = [snap EXCEPT ![s] = sn]
    /\ UNCHANGED <<poolVars, dbVars, published>>

\* faulty variant of RegisterRide: the metadata is written before the route
\* is computed
RegisterRideStoresFirst(s, q, routeFails, sn) ==
    \/ /\ routeFails
       /\ Free(s)
       /\ meta' = SetKey(meta, q.user_id, PassengerMetaData(q.pax, q.lug))
       /\ task' = Set(s, [IdleTask EXCEPT !.pc = "done", !.type = "REGISTER_RIDE",
                                          !.user_id = q.user_id,
                                          !.result = ErrorReply("failed")])
       /\ started' = started + 1
       /\ snap' = [snap EXCEPT ![s] = sn]
       /\ UNCHANGED <<zset, uuids, dbVars, published>>
    \/ /\ ~routeFails
       /\ StartMatch(s, q.user_id, q.route, q.pax, q.lug, sn)

\* the message handler up to its first await on the pool; routeFails: the
\* routing API errors or returns no route and generateH3IndexesForRoute throws
RegisterRide(s, q, routeFails, sn) ==
    \/ /\ ~ValidPayload(q)
       /\ ReplyError(s, q.user_id, "requires", sn)
    \/ /\ ValidPayload(q) /\ routeFails
       /\ ReplyError(s, q.user_id, "failed", sn)
    \/ /\ ValidPayload(q) /\ ~routeFails
       /\ StartMatch(s, q.user_id, q.route, q.pax, q.lug, sn)

(***************************************************************************)
(* REMOVE_USER (worker) and the WebSocket close handler                    *)
(***************************************************************************)
StartRemove(s, user_id, sn) ==
    /\ Free(s)
    /\ task' = Set(s, [IdleTask EXCEPT !.pc = "ruScan", !.type = "REMOVE_USER",
                                       !.user_id = user_id])
    /\ started' = started + 1
    /\ snap' = [snap EXCEPT ![s] = sn]
    /\ UNCHANGED <<poolVars, dbVars, published>>

\* faulty variant of UserMembers: only the first member of the user is selected
OneUserMember(z, userId) ==
    LET um == {m \in z : m.id = userId}
    IN IF um = {} THEN {}
       ELSE {CHOOSE m \in um : \A n \in um : LexLeq(MemberKey(m), MemberKey(n))}

\* the members removeUserFromPool selects from zRange(POOL_KEY, 0, -1)
UserMembers(z, userId) == {m \in z : m.id = userId}

RuScan(s) ==
    LET t == task[s]
        um == UserMembers(zset, t.user_id)
    IN /\ t.pc = "ruScan"
       /\ task' = Set(s, [t EXCEPT !.userMembers = um,
                                   !.pc = IF um # {} THEN "ruZrem" ELSE "ruDel"])
       /\ UNCHANGED <<poolVars, started, dbVars, published, snap>>

RuZrem(s) ==
    LET t == task[s]
    IN /\ t.pc = "ruZrem"
       /\ zset' = zset \ t.userMembers
       /\ task' = MarkGone(Set(s, [t EXCEPT !.pc = "ruDel"]), s, t.userMembers, {})
       /\ UNCHANGED <<meta, uuids, started, dbVars, published, snap>>

RuDel(s) ==
    LET t == task[s]
    IN /\ t.pc = "ruDel"
       /\ meta' = DelKeys(meta, {t.user_id})
       /\ task' = MarkGone(Set(s, Finished(t, NoneResult)), s, {}, {t.user_id})
       /\ UNCHANGED <<zset, uuids, started, dbVars, published, snap>>

Step(s, failures, detours) ==
    \/ StorePassengerMetaData(s)
    \/ StoreRouteH3Index(s)
    \/ ScanSuperset(s)
    \/ ScanPredecessors(s)
    \/ ScanSuccessors(s)
    \/ FetchRouteDistance(s, detours)
    \/ CmGet(s)
    \/ CmZrem(s)
    \/ CmDel(s)
    \/ CmStoreTripRoute(s)
    \/ CmStoreTripMetaData(s)
    \/ CmPersist(s, failures)
    \/ CmFullTrip(s)
    \/ CmPublish(s, failures)
    \/ RuScan(s)
    \/ RuZrem(s)
    \/ RuDel(s)

(***************************************************************************)
(* WorkerPool: the dispatcher in front of the worker's handler.            *)
(***************************************************************************)
\* a worker thread with the state of the readyPromise init() made for it
WorkerThread(state, readyPromise) == [state |-> state, readyPromise |-> readyPromise]

\* the workers created by the last call of init()
Batch == {w \in 1..Len(workers) : w > Len(workers) - PoolSize}

\* init() when every worker signals READY in time, as one step
WorkerPoolInit ==
    /\ ~isReady
    /\ isReady' = TRUE
    /\ workers' = workers \o [i \in 1..PoolSize |-> WorkerThread("ready", "resolved")]
    /\ initPc' = "resolved"
    /\ inits' = inits + 1
    /\ sinceInit' = 0
    /\ UNCHANGED <<nextWorkerIndex, taskIdCounter, pendingTasks, posted, settled, thrown>>
    /\ UNCHANGED <<poolVars, task, started, dbVars, published, snap>>

\* init() up to its await: poolSize workers are created and pushed
InitCall ==
    /\ ~isReady
    /\ initPc # "waiting"
    /\ inits < MaxInits
    /\ workers' = workers \o [i \in 1..PoolSize |-> WorkerThread("starting", "pending")]
    /\ initPc' = "waiting"
    /\ inits' = inits + 1
    /\ UNCHANGED <<isReady, nextWorkerIndex, taskIdCounter, pendingTasks, posted,
                   sinceInit, settled, thrown>>
    /\ UNCHANGED <<poolVars, task, started, dbVars, published, snap>>

\* faulty variant of WorkerReady: init() resolves on the first READY
WorkerReadyFirstWins(w) ==
    LET ws == [workers EXCEPT ![w] = WorkerThread("ready", "resolved")]
        all == initPc = "waiting" /\ w \in Batch
    IN /\ workers[w].state = "starting"
       /\ workers' = ws
       /\ isReady' = (isReady \/ all)
       /\ initPc' = IF all THEN "resolved" ELSE initPc
       /\ sinceInit' = IF all THEN 0 ELSE sinceInit
       /\ UNCHANGED <<nextWorkerIndex, taskIdCounter, pendingTasks, posted, inits,
                      settled, thrown>>
       /\ UNCHANGED <<poolVars, task, started, dbVars, published, snap>>

\* worker w posts READY: onReady resolves its readyPromise, and init()
\* resumes when that was the last one of Promise.all
WorkerReady(w) ==
    LET ws == [workers EXCEPT ![w] =
                  WorkerThread("ready", IF @.readyPromise = "pending" THEN "resolved"
                                        ELSE @.readyPromise)]
        all == initPc = "waiting" /\ \A x \in Batch : ws[x].readyPromise = "resolved"
    IN /\ workers[w].state = "starting"
       /\ workers' = ws
       /\ isReady' = (isReady \/ all)
       /\ initPc' = IF all THEN "resolved" ELSE initPc
       /\ sinceInit' = IF all THEN 0 ELSE sinceInit
       /\ UNCHANGED <<nextWorkerIndex, taskIdCounter, pendingTasks, posted, inits,
                      settled, thrown>>
       /\ UNCHANGED <<poolVars, task, started, dbVars, published, snap>>

\* worker w posts READY_ERROR: onReady ignores it
WorkerReadyError(w) ==
    /\ workers[w].state = "starting"
    /\ workers' = [workers EXCEPT ![w].state = "error"]
    /\ UNCHANGED <<isReady, nextWorkerIndex, taskIdCounter, pendingTasks, posted,
                   initPc, inits, sinceInit, settled, thrown>>
    /\ UNCHANGED <<poolVars, task, started, dbVars, published, snap>>

\* the 10 s timer of worker w fires: its readyPromise rejects, and with it
\* Promise.all and init()
ReadyTimeout(w) ==
    /\ workers[w].readyPromise = "pending"
    /\ workers' = [workers EXCEPT ![w].readyPromise = "rejected"]
    /\ initPc' = IF initPc = "waiting" /\ w \in Batch THEN "rejected" ELSE initPc
    /\ UNCHANGED <<isReady, nextWorkerIndex, taskIdCounter, pendingTasks, posted,
                   inits, sinceInit, settled, thrown>>
    /\ UNCHANGED <<poolVars, task, started, dbVars, published, snap>>

\* number of pending tasks that were posted to worker w
Load(w) ==
    Cardinality({p \in pendingTasks : posted[p.taskId].worker = w})

\* faulty variant of Execute: the task goes to the worker with the fewest
\* pending tasks
ExecuteLeastLoaded(s) ==
    LET W == 0..(PoolSize - 1)
        worker == CHOOSE w \in W : \A x \in W :
                      Load(w) < Load(x) \/ (Load(w) = Load(x) /\ w =< x)
    IN /\ isReady
       /\ taskIdCounter' = taskIdCounter + 1
       /\ pendingTasks' = pendingTasks \cup {[taskId |-> taskIdCounter + 1, slot |-> s]}
       /\ nextWorkerIndex' = (nextWorkerIndex + 1) % PoolSize
       /\ posted' = Append(posted, [taskId |-> taskIdCounter + 1, worker |-> worker,
                                    slot |-> s, k |-> sinceInit])
       /\ sinceInit' = sinceInit + 1
       /\ settled' = Append(settled, <<>>)
       /\ UNCHANGED <<isReady, workers, initPc, inits, thrown>>

\* execute(payload): the dispatcher's part of starting the task of slot s
Execute(s) ==
    /\ isReady
    /\ taskIdCounter' = taskIdCounter + 1
    /\ pendingTasks' = pendingTasks \cup {[taskId |-> taskIdCounter + 1, slot |-> s]}
    /\ nextWorkerIndex' = (nextWorkerIndex + 1) % PoolSize
    /\ posted' = Append(posted, [taskId |-> taskIdCounter + 1,
                                  worker |-> nextWorkerIndex,
                                  slot |-> s, k |-> sinceInit])
    /\ sinceInit' = sinceInit + 1
    /\ settled' = Append(settled, <<>>)
    /\ UNCHANGED <<isReady, workers, initPc, inits, thrown>>

\* execute(payload) on a pool that is not ready: it throws
ExecuteNotReady ==
    /\ ~isReady
    /\ thrown' = thrown + 1
    /\ UNCHANGED <<isReady, nextWorkerIndex, taskIdCounter, pendingTasks, posted,
                   workers, initPc, inits, sinceInit, settled>>
    /\ UNCHANGED <<poolVars, task, started, dbVars, published, snap>>

\* the task id of the message slot s's handler was called with
TaskIdOf(s) ==
    LET I == {n \in 1..Len(posted) : posted[n].slot = s}
    IN IF I = {} THEN 0
       ELSE posted[CHOOSE n \in I : \A m \in I : m =< n].taskId

\* what the handler posts back: {taskId, result} or {taskId, error}
WorkerMessage(taskId, t) ==
    IF t.type = "UNKNOWN"
    THEN [taskId |-> taskId, error |-> "Unknown task type"]
    ELSE IF "error" \in DOMAIN t.result
    THEN [taskId |-> taskId, error |-> t.result.error]
    ELSE [taskId |-> taskId, result |-> t.result]

\* pending.reject(new Error(error)) or pending.resolve(result)
SettledBy(msg) ==
    IF "error" \in DOMAIN msg
    THEN [by |-> "message", taskId |-> msg.taskId, kind |-> "rejected", value |-> msg.error]
    ELSE [by |-> "message", taskId |-> msg.taskId, kind |-> "resolved", value |-> msg.result]

\* faulty variant of OnWorkerMessage: the reply settles the oldest pending
\* task, whatever id it carries
OnWorkerMessageOldest(s) ==
    LET msg == WorkerMessage(TaskIdOf(s), task'[s])
        replied == task'[s].pc = "done" /\ pendingTasks # {}
        oldest == CHOOSE p \in pendingTasks : \A q \in pendingTasks : p.taskId =< q.taskId
    IN /\ pendingTasks' = IF replied THEN pendingTasks \ {oldest} ELSE pendingTasks
       /\ settled' = IF replied
                     THEN [settled EXCEPT ![oldest.taskId] = Append(@, SettledBy(msg))]
                     ELSE settled
       /\ UNCHANGED <<isReady, nextWorkerIndex, taskIdCounter, posted, workers,
                      initPc, inits, sinceInit, thrown>>

\* the pool's message listener: the reply of slot s's task settles the
\* pending entry of its task id, if there is one
OnWorkerMessage(s) ==
    LET msg == WorkerMessage(TaskIdOf(s), task'[s])
        replied == task'[s].pc = "done"
        pending == {p \in pendingTasks : p.taskId = msg.taskId}
    IN /\ pendingTasks' = IF replied THEN pendingTasks \ pending ELSE pendingTasks
       /\ settled' = IF replied /\ pending # {}
                     THEN [settled EXCEPT ![msg.taskId] = Append(@, SettledBy(msg))]
                     ELSE settled
       /\ UNCHANGED <<isReady, nextWorkerIndex, taskIdCounter, posted, workers,
                      initPc, inits, sinceInit, thrown>>

\* the rejection terminate() hands to a pending task
Terminated == [by |-> "terminate", kind |-> "rejected", value |-> "Worker pool terminated"]

\* faulty variant of Terminate: the pending tasks are left as they are
TerminateLeavesPending ==
    /\ initPc # "waiting"
    /\ workers' = <<>>
    /\ isReady' = FALSE
    /\ UNCHANGED <<nextWorkerIndex, taskIdCounter, pendingTasks, posted, initPc,
                   inits, sinceInit, settled, thrown>>
    /\ UNCHANGED <<poolVars, task, started, dbVars, published, snap>>

\* terminate(), called while no init() is waiting
Terminate ==
    /\ initPc # "waiting"
    /\ settled' = [id \in 1..Len(settled) |->
                      IF \E p \in pendingTasks : p.taskId = id
                      THEN Append(settled[id], Terminated)
                      ELSE settled[id]]
    /\ pendingTasks' = {}
    /\ workers' = <<>>
    /\ isReady' = FALSE
    /\ UNCHANGED <<nextWorkerIndex, taskIdCounter, posted, initPc, inits, sinceInit,
                   thrown>>
    /\ UNCHANGED <<poolVars, task, started, dbVars, published, snap>>

\* a task of a type the handler does not know
StartUnknownType(s) ==
    /\ Free(s)
    /\ task' = Set(s, [IdleTask EXCEPT !.pc = "unknown", !.type = "UNKNOWN"])
    /\ started' = started + 1
    /\ snap' = [snap EXCEPT ![s] = Null]
    /\ UNCHANGED <<poolVars, dbVars, published>>

\* default: postMessage({taskId, error})
ReplyUnknownType(s) ==
    /\ task[s].pc = "unknown"
    /\ task' = Set(s, Finished(task[s], NoneResult))
    /\ UNCHANGED <<poolVars, started, dbVars, published, snap>>

\* tasks of different slots interleave at every await
Next ==
    \/ WorkerPoolInit /\ UNCHANGED restVars
    \/ \E s \in Slots, q \in Requests :
          /\ started < MaxTasks
          /\ FreeSlot(s)
          /\ StartMatch(s, q.user_id, q.route, q.pax, q.lug, Null)
          /\ Execute(s)
          /\ UNCHANGED restVars
    \/ \E s \in Slots, u \in RemovedUsers :
          /\ started < MaxTasks
          /\ FreeSlot(s)
          /\ StartRemove(s, u, Null)
          /\ Execute(s)
          /\ UNCHANGED restVars
    \/ \E s \in Slots :
          Step(s, NoFailure, FewDetours) /\ OnWorkerMessage(s) /\ UNCHANGED restVars

Spec == Init /\ [][Next]_vars

\* one task at a time: a task starts when no other is in flight
NextSeq ==
    \/ \E q \in SeqRequests \cup InvalidRequests, routeFails \in Failures :
          /\ started < MaxSeqTasks
          /\ AllIdle
          /\ RegisterRide(1, q, routeFails, Snapshot)
          /\ UNCHANGED <<wpVars, restVars>>
    \/ /\ \E u \in Users : started < MaxSeqTasks /\ AllIdle /\ StartRemove(1, u, Snapshot)
       /\ UNCHANGED <<wpVars, restVars>>
    \/ Step(1, Failures, DetourChoices) /\ UNCHANGED <<wpVars, restVars>>

SpecSeq == Init /\ [][NextSeq]_vars

\* the tasks submitted to the pool while it is started and shut down
PoolRequests == {Request(User(1), <<1>>, 1, 1)}

\* the steps of the handler that the tasks of PoolRequests and RemovedUsers take
PoolStep(s) ==
    \/ StorePassengerMetaData(s)
    \/ StoreRouteH3Index(s)
    \/ ScanSuperset(s)
    \/ ScanPredecessors(s)
    \/ ScanSuccessors(s)
    \/ RuScan(s)
    \/ RuZrem(s)
    \/ RuDel(s)
    \/ ReplyUnknownType(s)

\* the life of the pool: init, execute, replies and terminate in any order
NextPool ==
    \/ InitCall /\ UNCHANGED restVars
    \/ \E w \in 1..Len(workers) : WorkerReady(w) /\ UNCHANGED restVars
    \/ \E w \in 1..Len(workers) : WorkerReadyError(w) /\ UNCHANGED restVars
    \/ \E w \in 1..Len(workers) : ReadyTimeout(w) /\ UNCHANGED restVars
    \/ Terminate /\ UNCHANGED restVars
    \/ started + thrown < MaxTasks /\ ExecuteNotReady /\ UNCHANGED restVars
    \/ \E s \in Slots, q \in PoolRequests :
          /\ started + thrown < MaxTasks
          /\ FreeSlot(s)
          /\ StartMatch(s, q.user_id, q.route, q.pax, q.lug, Null)
          /\ Execute(s)
          /\ UNCHANGED restVars
    \/ \E s \in Slots, u \in RemovedUsers :
          /\ started + thrown < MaxTasks
          /\ FreeSlot(s)
          /\ StartRemove(s, u, Null)
          /\ Execute(s)
          /\ UNCHANGED restVars
    \/ \E s \in Slots :
          /\ started + thrown < MaxTasks
          /\ FreeSlot(s)
          /\ StartUnknownType(s)
          /\ Execute(s)
          /\ UNCHANGED restVars
    \/ \E s \in Slots : PoolStep(s) /\ OnWorkerMessage(s) /\ UNCHANGED restVars

SpecPool == Init /\ [][NextPool]_vars

(***************************************************************************)
(* POST /cancel: a read of the trip, then one batch transaction.           *)
(***************************************************************************)
\* trip.rideRequests.find(rr => rr.user_id === user_id): its index, or 0
RequestIndex(rrs, u) ==
    LET I == {i \in 1..Len(rrs) : rrs[i].user_id = u}
    IN IF I = {} THEN 0 ELSE CHOOSE i \in I : \A j \in I : i =< j

\* rideRequests.delete({where: {id}}): the rows without row i
DeleteAt(rrs, i) ==
    [j \in 1..(Len(rrs) - 1) |-> IF j < i THEN rrs[j] ELSE rrs[j + 1]]

\* faulty variant of Scenario: a rider leaving a pair is handled as a rider
\* leaving a larger trip
ScenarioPairAsMany(totalRiders) ==
    IF totalRiders = 1 THEN "SOLO_CANCELLATION" ELSE "RIDER_REMOVED"

\* the branch the handler takes for a trip read with this many riders
Scenario(totalRiders) ==
    IF totalRiders = 1 THEN "SOLO_CANCELLATION"
    ELSE IF totalRiders = 2 THEN "TRIP_CANCELLED"
    ELSE "RIDER_REMOVED"

\* the users of the rows of a trip
RidersOf(trip) == {trip.rideRequests[i].user_id : i \in 1..Len(trip.rideRequests)}

\* a - b, not below 0
MaxZero(a, b) == IF a > b THEN a - b ELSE 0

\* the batch transaction of the handler for the trip as it was read: the
\* stores after it, or the stores unchanged when a row it names is gone
CancelTx(trips, cb, trip, user_id, scenario) ==
    LET at == FindTrip(trips, trip.id)
        cur == trips[at]
        own == RequestIndex(cur.rideRequests, user_id)
        mine == trip.rideRequests[RequestIndex(trip.rideRequests, user_id)]
        rest == DeleteAt(cur.rideRequests, own)
        others == {i \in 1..Len(trip.rideRequests) :
                      trip.rideRequests[i].user_id # user_id}
        remainingUser ==
            trip.rideRequests[CHOOSE i \in others : \A j \in others : i =< j].user_id
        other == RequestIndex(rest, remainingUser)
        failed == [trips |-> trips, cabs |-> cb, ok |-> FALSE]
    IN IF own = 0 THEN failed
       ELSE IF scenario = "SOLO_CANCELLATION"
       THEN [trips |-> [trips EXCEPT ![at] = [cur EXCEPT !.rideRequests = rest,
                                                         !.status = "CANCELLED"]],
             cabs |-> cb, ok |-> TRUE]
       ELSE IF scenario = "TRIP_CANCELLED"
       THEN IF others = {} \/ other = 0 THEN failed
            ELSE [trips |-> [trips EXCEPT ![at] =
                               [cur EXCEPT
                                  !.rideRequests = [rest EXCEPT ![other].status = "CANCELLED"],
                                  !.status = "CANCELLED"]],
                  cabs |-> IF trip.cab_id # 0
                           THEN [cb EXCEPT ![trip.cab_id].status = "AVAILABLE"]
                           ELSE cb,
                  ok |-> TRUE]
       ELSE [trips |-> [trips EXCEPT ![at] =
                          [cur EXCEPT
                             !.rideRequests = rest,
                             !.no_of_passengers =
                                 MaxZero(trip.no_of_passengers, mine.no_of_passengers),
                             !.total_luggage =
                                 MaxZero(trip.total_luggage, mine.luggage_capacity)]],
             cabs |-> cb, ok |-> TRUE]

\* the messages the handler posts through rideMatchingPool.execute
Cleanup(trip, user_id, scenario) ==
    LET others == {i \in 1..Len(trip.rideRequests) :
                      trip.rideRequests[i].user_id # user_id}
    IN IF scenario = "SOLO_CANCELLATION"
       THEN <<[type |-> "REMOVE_USER", userId |-> user_id]>>
       ELSE IF scenario = "TRIP_CANCELLED"
       THEN <<[type |-> "REMOVE_USER", userId |-> user_id],
              [type |-> "REMOVE_USER",
               userId |-> trip.rideRequests[CHOOSE i \in others :
                                               \A j \in others : i =< j].user_id]>>
       ELSE <<[type |-> "REMOVE_USER_FROM_TRIP", userId |-> user_id]>>

RECURSIVE Notices(_, _, _, _)
\* the messages the handler publishes to the riders that remain
Notices(rrs, user_id, scenario, trip_id) ==
    IF rrs = <<>> \/ scenario = "SOLO_CANCELLATION" THEN <<>>
    ELSE IF Head(rrs).user_id = user_id
    THEN Notices(Tail(rrs), user_id, scenario, trip_id)
    ELSE <<[topic |-> Head(rrs).user_id,
            type |-> IF scenario = "TRIP_CANCELLED" THEN "RIDE_CANCELLED"
                     ELSE "RIDER_LEFT",
            trip |-> trip_id]>>
         \o (IF scenario = "TRIP_CANCELLED" THEN <<>>
             ELSE Notices(Tail(rrs), user_id, scenario, trip_id))

\* the handler up to its transaction: validation, findUnique and the
\* replies 404 and 409
CancelRead(c, user_id, trip_id) ==
    LET trip == FindUniqueTrip(dbTrips, trip_id)
        reply == IF trip = Null THEN 404
                 ELSE IF trip.status \in {"ACTIVE", "COMPLETED", "CANCELLED"} THEN 409
                 ELSE IF RequestIndex(trip.rideRequests, user_id) = 0 THEN 404
                 ELSE 0
    IN /\ cancel[c].pc \in {"idle", "done"}
       /\ cancels < MaxCancels
       /\ cancels' = cancels + 1
       /\ cancel' = [cancel EXCEPT ![c] =
                        [pc |-> IF reply = 0 THEN "commit" ELSE "done",
                         user_id |-> user_id, trip |-> trip, reply |-> reply]]
       /\ UNCHANGED <<poolVars, task, started, dbVars, published, snap, wpVars, queued, moreVars>>

\* the transaction, the cleanup messages, the notices and the reply
CancelCommit(c) ==
    LET r == cancel[c]
        scenario == Scenario(Len(r.trip.rideRequests))
        tx == CancelTx(dbTrips, cabs, r.trip, r.user_id, scenario)
        sent == tx.ok /\ isReady
    IN /\ r.pc = "commit"
       /\ dbTrips' = tx.trips
       /\ cabs' = tx.cabs
       /\ queued' = IF sent THEN queued \o Cleanup(r.trip, r.user_id, scenario)
                     ELSE queued
       /\ published' = IF sent
                        THEN published \o Notices(r.trip.rideRequests, r.user_id,
                                                   scenario, r.trip.id)
                        ELSE published
       /\ cancel' = [cancel EXCEPT ![c] = [r EXCEPT !.pc = "done",
                                                    !.reply = IF sent THEN 200 ELSE 500]]
       /\ UNCHANGED <<poolVars, task, started, snap, wpVars, cancels, moreVars>>

\* a posted REMOVE_USER message reaches a worker's handler
StartQueued(s) ==
    /\ queued # <<>>
    /\ Head(queued).type = "REMOVE_USER"
    /\ AllIdle
    /\ StartRemove(s, Head(queued).userId, Null)
    /\ Execute(s)
    /\ queued' = Tail(queued)
    /\ UNCHANGED <<cancel, cancels, moreVars>>

\* the riders of the cancel specification
CancelRequests ==
    {Request(User(1), <<1, 2>>, 1, 1), Request(User(2), <<1, 2>>, 1, 1),
     Request(User(3), <<1, 2>>, 1, 1)}

\* the first cancel slot that has no request in flight
FreeCancelSlot(c) ==
    /\ cancel[c].pc \in {"idle", "done"}
    /\ \A x \in CancelSlots : x < c => cancel[x].pc \notin {"idle", "done"}

\* riders register one at a time while riders of durable trips cancel
NextCancel ==
    \/ WorkerPoolInit /\ UNCHANGED restVars
    \/ \E q \in CancelRequests :
          /\ started - taskIdCounter < MaxTasks
          /\ AllIdle
          /\ StartMatch(1, q.user_id, q.route, q.pax, q.lug, Null)
          /\ UNCHANGED <<wpVars, restVars>>
    \/ \E c \in CancelSlots, u \in DbUsers, i \in 1..Len(dbTrips) :
          FreeCancelSlot(c) /\ CancelRead(c, u, dbTrips[i].id)
    \/ \E c \in CancelSlots : CancelCommit(c)
    \/ StartQueued(1)
    \/ \E s \in Slots :
          Step(s, NoFailure, FewDetours) /\ OnWorkerMessage(s) /\ UNCHANGED restVars

SpecCancel == Init /\ [][NextCancel]_vars

(***************************************************************************)
(* POST /generate-otp and POST /start.  The verifications of a request     *)
(* name the riders of the trip with the OTPs their rows hold.              *)
(***************************************************************************)
MaxStarts == 2

\* POST /generate-otp for a trip that is WAITING and has riders
GenerateOtp(trip_id) ==
    LET trip == FindUniqueTrip(dbTrips, trip_id)
    IN /\ trip # Null
       /\ trip.status = "WAITING"
       /\ trip.rideRequests # <<>>
       /\ ~(RidersOf(trip) \subseteq otp)
       /\ otp' = otp \cup RidersOf(trip)
       /\ UNCHANGED <<coreVars, cancelVars, wsVars, h3Vars, startRide, starts>>

\* the handler up to its transaction: findUnique, the status replies, the
\* comparison of the verifications with the riders, and the OTP check
StartRead(trip_id, listed) ==
    LET trip == FindUniqueTrip(dbTrips, trip_id)
        reply == IF trip = Null THEN 404
                 ELSE IF trip.status \in {"ACTIVE", "COMPLETED", "CANCELLED"} THEN 409
                 ELSE IF ~listed \/ trip.rideRequests = <<>> THEN 400
                 ELSE IF ~(RidersOf(trip) \subseteq otp) THEN 401
                 ELSE 0
    IN /\ startRide.pc \in {"idle", "done"}
       /\ starts < MaxStarts
       /\ starts' = starts + 1
       /\ startRide' = [pc |-> IF reply = 0 THEN "commit" ELSE "done",
                    trip |-> trip, reply |-> reply]
       /\ UNCHANGED <<coreVars, cancelVars, wsVars, h3Vars, otp>>

\* faulty variant of StartTx: the rows of the riders are not updated
StartTxTripOnly(trips, trip) ==
    [trips EXCEPT ![FindTrip(trips, trip.id)].status = "ACTIVE"]

\* the batch transaction of the handler for the trip as it was read
StartTx(trips, trip) ==
    LET at == FindTrip(trips, trip.id)
    IN [trips EXCEPT ![at] =
          [@ EXCEPT !.status = "ACTIVE",
                    !.rideRequests =
                       [i \in 1..Len(@) |->
                          IF @[i].user_id \in RidersOf(trip)
                          THEN [@[i] EXCEPT !.status = "ACTIVE"] ELSE @[i]]]]

\* the transaction and the reply 200
StartCommit ==
    /\ startRide.pc = "commit"
    /\ otp' = otp \ RidersOf(startRide.trip)
    /\ dbTrips' = StartTx(dbTrips, startRide.trip)
    /\ startRide' = [startRide EXCEPT !.pc = "done", !.reply = 200]
    /\ UNCHANGED <<poolVars, task, started, cabs, published, snap, wpVars,
                   cancelVars, wsVars, h3Vars, starts>>

\* riders register one at a time while trips are cancelled and started; the
\* matcher touches the Trip Store in one transaction, so the steps of the
\* routes are taken between the tasks of the matcher
NextTrip ==
    \/ WorkerPoolInit /\ UNCHANGED restVars
    \/ \E q \in CancelRequests :
          /\ started - taskIdCounter < MaxTasks
          /\ AllIdle
          /\ StartMatch(1, q.user_id, q.route, q.pax, q.lug, Null)
          /\ UNCHANGED <<wpVars, restVars>>
    \/ \E u \in DbUsers, i \in 1..Len(dbTrips) :
          AllIdle /\ CancelRead(1, u, dbTrips[i].id)
    \/ AllIdle /\ CancelCommit(1)
    \/ StartQueued(1)
    \/ Step(1, NoFailure, FewDetours) /\ OnWorkerMessage(1) /\ UNCHANGED restVars
    \/ \E i \in 1..Len(dbTrips) : AllIdle /\ GenerateOtp(dbTrips[i].id)
    \/ \E i \in 1..Len(dbTrips), listed \in BOOLEAN :
          AllIdle /\ StartRead(dbTrips[i].id, listed)
    \/ AllIdle /\ StartCommit

SpecTrip == Init /\ [][NextTrip]_vars

(***************************************************************************)
(* Vocabulary of the properties.                                           *)
(***************************************************************************)
TripKeys == {k \in DOMAIN meta : k[1] = "TRIP"}
MembersOf(tm) == {tm.users[i].id : i \in 1..Len(tm.users)}
MembersOfUser(z, u) == {m \in z : m.id = u}
Outcomes(t) == {t.log[i].outcome : i \in 1..Len(t.log)}
Committed(t) == "committed" \in Outcomes(t)
IsMatchTask(t) == t.type = "MATCH_RIDE"
\* the task is between its zRem and its return
InCommit(t) ==
    t.pc \in {"cmDel", "cmTripRoute", "cmTripMeta", "cmPersist", "cmFull", "cmPublish"}
\* the task has registered and has not removed its own entry
Scanning(t) ==
    t.pc \in {"scan1a", "scanPred", "scanSucc", "detour", "cmGet", "cmZrem"}
OwnMember(t) == Member(t.route, t.user_id)
MetaWithout(m, keys) == [k \in DOMAIN m \ keys |-> m[k]]

(***************************************************************************)
(* C1.  Two tasks of different callers that have both selected the same    *)
(* peer entry never both commit it: at no time are two such tasks past     *)
(* their zRem with the same peer.                                          *)
(***************************************************************************)
C1_OnePairingPerPeer ==
    \A s1 \in Slots, s2 \in Slots :
        (/\ s1 # s2
         /\ task[s1].user_id # task[s2].user_id
         /\ InCommit(task[s1]) /\ InCommit(task[s2]))
            => task[s1].cand # task[s2].cand

(***************************************************************************)
(* C2.  Every user id has at most one metadata key and at most one         *)
(* `<route>::U` member of the sorted set.                                  *)
(***************************************************************************)
C2_OneMembershipPerUser ==
    \A u \in Users : Cardinality(MembersOfUser(zset, u)) =< 1

(***************************************************************************)
(* C3.  A user listed in a trip entry of the pool has no member of its own *)
(* in the sorted set and no metadata key of its own.                       *)
(***************************************************************************)
C3_TripMembersNotInPool ==
    \A k \in TripKeys : \A u \in MembersOf(meta[k]) :
        MembersOfUser(zset, u) = {} /\ u \notin DOMAIN meta

(***************************************************************************)
(* C4.  Every trip entry of the pool has at most MAX_PASSENGERS passengers *)
(* and at most LUGGAGE_CAPACITY luggage, and is ACTIVE exactly when one of *)
(* the two bounds is met, WAITING otherwise.                               *)
(***************************************************************************)
C4_TripWithinCapacity ==
    \A k \in TripKeys :
        /\ meta[k].no_of_passengers =< MAX_PASSENGERS
        /\ meta[k].luggage =< LUGGAGE_CAPACITY
        /\ meta[k].status \in {"ACTIVE", "WAITING"}
        /\ meta[k].status = "ACTIVE" <=>
              (\/ meta[k].no_of_passengers = MAX_PASSENGERS
               \/ meta[k].luggage = LUGGAGE_CAPACITY)

\* a waiting trip of two has been extended to a full trip of three
C4_Witness ==
    \E k \in TripKeys :
        /\ Len(meta[k].users) = 3
        /\ meta[k].no_of_passengers = MAX_PASSENGERS
        /\ meta[k].status = "ACTIVE"

(***************************************************************************)
(* C5.  When a task run on its own has paired caller C with peer P, the    *)
(* sorted set holds no member of C and none of P, neither has a metadata   *)
(* key, the trip metadata is stored under a key minted by this task with   *)
(* the members of P followed by C, and the trip has a member in the sorted *)
(* set exactly when it is not full.                                        *)
(***************************************************************************)
C5_PairingEffect ==
    \A s \in Slots :
        LET t == task[s]
            k == t.result.trip_id
        IN (t.pc = "done" /\ IsMatchTask(t) /\ Committed(t)) =>
              /\ MembersOfUser(zset, t.user_id) = {}
              /\ MembersOfUser(zset, t.cand.id) = {}
              /\ t.user_id \notin DOMAIN meta
              /\ t.cand.id \notin DOMAIN meta
              /\ k \notin DOMAIN snap[s].meta
              /\ k \in DOMAIN meta
              /\ meta[k].users =
                    (IF t.cand.id \in DOMAIN snap[s].meta /\ HasUsers(snap[s].meta[t.cand.id])
                     THEN snap[s].meta[t.cand.id].users
                     ELSE <<UserEntry(t.cand.id, snap[s].meta[t.cand.id])>>)
                    \o <<UserEntry(t.user_id, t.userMetaData)>>
              /\ MembersOfUser(zset, k) # {} <=> meta[k].status # "ACTIVE"

(***************************************************************************)
(* C6.  Step 1a is preferred to Step 1b and Step 1b to Step 2: the calls   *)
(* of checkMatchConstraints are made in the order of the steps, a call     *)
(* that commits is the last one, the task does nothing but finish its      *)
(* commit after it, and the result is BEST_DETOUR only for a commit of     *)
(* Step 2, DIRECT only for a commit of Step 1a or 1b, NONE for no commit.  *)
(***************************************************************************)
StepRank(st) == IF st = "1a" THEN 1 ELSE IF st = "1b" THEN 2 ELSE 3

C6_StepPreference ==
    \A s \in Slots :
        LET t == task[s]
            n == Len(t.log)
        IN IsMatchTask(t) =>
              /\ \A i \in 1..n : t.log[i].outcome = "committed" => i = n
              /\ \A i \in 1..n : \A j \in i..n :
                      StepRank(t.log[i].step) =< StepRank(t.log[j].step)
              /\ Committed(t) => (InCommit(t) \/ t.pc = "done")
              /\ t.pc = "done" =>
                    /\ t.result.match_type = "BEST_DETOUR" =>
                          (Committed(t) /\ t.log[n].step = "2")
                    /\ t.result.match_type = "DIRECT" =>
                          (Committed(t) /\ t.log[n].step \in {"1a", "1b"})
                    /\ t.result.match_type = "NONE" => ~Committed(t)

\* a detour match returned after a candidate of an earlier step was refused
C6_Witness ==
    \E s \in Slots :
        /\ task[s].pc = "done"
        /\ IsMatchTask(task[s])
        /\ task[s].result.match_type = "BEST_DETOUR"
        /\ \E i \in 1..Len(task[s].log) :
              task[s].log[i].step \in {"1a", "1b"} /\ task[s].log[i].outcome = "rejected"

(***************************************************************************)
(* C7.  A candidate over capacity is skipped without side effect: a task   *)
(* gets past the capacity test only with a passenger sum of at most        *)
(* MAX_PASSENGERS and a luggage sum of at most LUGGAGE_CAPACITY, and as     *)
(* long as a task run on its own has committed nothing, the stores are     *)
(* those of its start plus its own registration; a task that returns NONE  *)
(* has committed nothing and leaves its member and its key in the pool.    *)
(***************************************************************************)
C7_RejectionHasNoEffect ==
    \A s \in Slots :
        LET t == task[s]
        IN IsMatchTask(t) =>
              /\ (t.pc = "cmZrem" \/ InCommit(t)) =>
                    /\ t.data.no_of_passengers + t.userMetaData.no_of_passengers
                          =< MAX_PASSENGERS
                    /\ t.data.luggage + t.userMetaData.luggage =< LUGGAGE_CAPACITY
              /\ (t.pc \notin {"setMeta", "zadd"} /\ ~Committed(t)) =>
                    /\ zset = snap[s].zset \cup {OwnMember(t)}
                    /\ meta = SetKey(snap[s].meta, t.user_id, t.userMetaData)
                    /\ dbTrips = snap[s].dbTrips
                    /\ cabs = snap[s].cabs
                    /\ published = snap[s].published
              /\ (t.pc = "done" /\ t.result = NoneResult) =>
                    /\ ~Committed(t)
                    /\ OwnMember(t) \in zset
                    /\ t.user_id \in DOMAIN meta

\* a task that returned NONE after its candidates were refused
C7_Witness ==
    \E s \in Slots :
        /\ task[s].pc = "done" /\ IsMatchTask(task[s])
        /\ task[s].result = NoneResult
        /\ "rejected" \in Outcomes(task[s])
        /\ snap[s].zset # {}

(***************************************************************************)
(* C8.  A task that is scanning has written its metadata and added its     *)
(* member before: both are in the pool unless another call has removed     *)
(* them since.                                                             *)
(***************************************************************************)
C8_RegisteredBeforeScan ==
    \A s \in Slots :
        LET t == task[s]
        IN (IsMatchTask(t) /\ Scanning(t)) =>
              /\ OwnMember(t) \in zset \/ t.recGone
              /\ t.user_id \in DOMAIN meta \/ t.metaGone

\* a requester that started later has selected the member of a task that
\* is still scanning
C8_Witness ==
    \E s1 \in Slots, s2 \in Slots :
        /\ s1 # s2
        /\ IsMatchTask(task[s1]) /\ Scanning(task[s1])
        /\ IsMatchTask(task[s2]) /\ task[s2].pc = "cmGet"
        /\ task[s2].cand = OwnMember(task[s1])
        /\ task[s1].user_id # task[s2].user_id
        /\ OwnMember(task[s1]) \in zset

(***************************************************************************)
(* C9.  removeUserFromPool(U) leaves no member of U in the sorted set and  *)
(* no metadata key U, changes nothing else, and changes nothing at all     *)
(* when U has no entry (in particular when it is called a second time).    *)
(***************************************************************************)
C9_RemoveUser ==
    \A s \in Slots :
        LET t == task[s]
            u == t.user_id
        IN (t.type = "REMOVE_USER" /\ t.pc = "done") =>
              /\ MembersOfUser(zset, u) = {}
              /\ u \notin DOMAIN meta
              /\ zset = snap[s].zset \ MembersOfUser(snap[s].zset, u)
              /\ meta = MetaWithout(snap[s].meta, {u})
              /\ dbTrips = snap[s].dbTrips
              /\ cabs = snap[s].cabs
              /\ published = snap[s].published
              /\ (MembersOfUser(snap[s].zset, u) = {} /\ u \notin DOMAIN snap[s].meta) =>
                    (zset = snap[s].zset /\ meta = snap[s].meta)

\* a user with two members has been removed while another entry stayed
C9_Witness ==
    \E s \in Slots :
        /\ task[s].type = "REMOVE_USER" /\ task[s].pc = "done"
        /\ Cardinality(MembersOfUser(snap[s].zset, task[s].user_id)) = 2
        /\ task[s].user_id \in DOMAIN snap[s].meta

(***************************************************************************)
(* C10.  When the Trip Store transaction of a pairing throws or returns    *)
(* null, the task still returns the match with trip = null, the publish to *)
(* the peer is still made, with trip = null, and the pool keeps the        *)
(* changes of the pairing; the Trip Store is unchanged.                    *)
(***************************************************************************)
C10_PersistFailureStillMatches ==
    \A s \in Slots :
        LET t == task[s]
        IN (t.pc = "done" /\ IsMatchTask(t) /\ Committed(t) /\ t.dbTripId = NoId) =>
              /\ t.result.match_type \in {"DIRECT", "BEST_DETOUR"}
              /\ t.result.user_id = t.cand.id
              /\ t.result.trip = Null
              /\ \/ t.pubOk /\ published = Append(snap[s].published,
                                                   RideMatched(t.cand.id, Null))
                 \/ ~t.pubOk /\ published = snap[s].published
              /\ OwnMember(t) \notin zset
              /\ t.cand \notin zset
              /\ t.user_id \notin DOMAIN meta
              /\ t.cand.id \notin DOMAIN meta
              /\ t.result.trip_id \in DOMAIN meta
              /\ dbTrips = snap[s].dbTrips
              /\ cabs = snap[s].cabs

\* a pairing whose caller has no row in the Users table, published to the peer
C10_Witness ==
    \E s \in Slots :
        /\ task[s].pc = "done" /\ Committed(task[s]) /\ task[s].dbTripId = NoId
        /\ task[s].user_id \notin DbUsers
        /\ task[s].pubOk

(***************************************************************************)
(* C11.  A REGISTER_RIDE whose route computation fails is answered with an *)
(* error and leaves the pool as it was: no metadata key, no member, no     *)
(* scan, no call of checkMatchConstraints, and nothing in the Trip Store   *)
(* or on the notification bus.                                             *)
(***************************************************************************)
RouteFailed(t) ==
    t.type = "REGISTER_RIDE" /\ t.pc = "done" /\ t.result = ErrorReply("failed")

C11_RouteFailureLeavesPool ==
    \A s \in Slots :
        RouteFailed(task[s]) =>
            /\ zset = snap[s].zset
            /\ meta = snap[s].meta
            /\ dbTrips = snap[s].dbTrips
            /\ cabs = snap[s].cabs
            /\ published = snap[s].published
            /\ task[s].log = <<>>

\* the route of a new user could not be computed while others were waiting
C11_Witness ==
    \E s \in Slots :
        /\ RouteFailed(task[s])
        /\ snap[s].zset # {}
        /\ MembersOfUser(zset, task[s].user_id) = {}
        /\ task[s].user_id \notin DOMAIN meta

(***************************************************************************)
(* C12.  The step that publishes RIDE_MATCHED ends the task with the match *)
(* and the trip read from the Trip Store whether or not the bus accepts    *)
(* the message: it changes nothing in the pool or in the Trip Store, and   *)
(* it puts at most one message on the bus, none when the publish fails.    *)
(***************************************************************************)
C12_PublishFailureKeepsCommit ==
    [][\A s \in Slots :
          (task[s].pc = "cmPublish" /\ task'[s] # task[s]) =>
              /\ task'[s].pc = "done"
              /\ task'[s].result.match_type \in {"DIRECT", "BEST_DETOUR"}
              /\ task'[s].result.user_id = task[s].cand.id
              /\ task'[s].result.trip_id = task[s].tripKey
              /\ task'[s].result.trip = task[s].fullTrip
              /\ zset' = zset /\ meta' = meta
              /\ dbTrips' = dbTrips /\ cabs' = cabs
              /\ \/ task'[s].pubOk /\ published' =
                       Append(published, RideMatched(task[s].cand.id, task[s].fullTrip))
                 \/ ~task'[s].pubOk /\ published' = published]_vars

\* a pairing with a durable trip whose publish was refused
C12_Witness ==
    \E s \in Slots :
        /\ task[s].pc = "done" /\ IsMatchTask(task[s]) /\ Committed(task[s])
        /\ ~task[s].pubOk
        /\ task[s].result.trip # Null
        /\ published = snap[s].published

(***************************************************************************)
(* C13.  A task run on its own publishes nothing before its pairing has    *)
(* been through the Trip Store, nothing at all when it commits no pairing, *)
(* and exactly one RIDE_MATCHED for a pairing: to the topic named by the   *)
(* id of the peer entry, carrying the trip read back from the Trip Store   *)
(* (null when the transaction gave no id).  The one publish puts no        *)
(* message on the bus only when the bus refuses it.                        *)
(***************************************************************************)
C13_OnePublishPerPairing ==
    \A s \in Slots :
        LET t == task[s]
        IN IsMatchTask(t) =>
              /\ t.pc # "done" => published = snap[s].published
              /\ (t.pc = "done" /\ ~Committed(t)) => published = snap[s].published
              /\ (t.pc = "done" /\ Committed(t)) =>
                    /\ t.result.trip = (IF t.dbTripId = NoId THEN Null
                                        ELSE FindUniqueTrip(dbTrips, t.dbTripId))
                    /\ \/ /\ t.pubOk
                          /\ published = Append(snap[s].published,
                                [topic |-> t.cand.id, type |-> "RIDE_MATCHED",
                                 trip |-> t.result.trip])
                       \/ /\ ~t.pubOk
                          /\ published = snap[s].published

\* a passenger has joined a waiting trip: the message went to the topic of
\* the trip entry, with the durable trip
C13_Witness ==
    \E s \in Slots :
        /\ task[s].pc = "done" /\ IsMatchTask(task[s]) /\ Committed(task[s])
        /\ task[s].pubOk
        /\ task[s].cand.id[1] = "TRIP"
        /\ published[Len(published)].topic = task[s].cand.id
        /\ published[Len(published)].trip # Null

(***************************************************************************)
(* C14.  A pairing that the Trip Store has committed has its durable row   *)
(* under the id of its pool trip entry, and a pairing that extends a pool  *)
(* trip adds no Trips row.                                                 *)
(***************************************************************************)
C14_DurableRowHasPoolId ==
    \A s \in Slots :
        LET t == task[s]
        IN (t.pc = "done" /\ IsMatchTask(t) /\ Committed(t) /\ t.dbTripId # NoId) =>
              /\ t.dbTripId = t.result.trip_id
              /\ t.cand.id[1] = "TRIP" => Len(dbTrips) = Len(snap[s].dbTrips)

RECURSIVE SumPassengers(_)
SumPassengers(rrs) ==
    IF rrs = <<>> THEN 0
    ELSE Head(rrs).no_of_passengers + SumPassengers(Tail(rrs))

RECURSIVE SumLuggage(_)
SumLuggage(rrs) ==
    IF rrs = <<>> THEN 0
    ELSE Head(rrs).luggage_capacity + SumLuggage(Tail(rrs))

\* C15: after every committed transaction of the matcher, each durable
\* trip's no_of_passengers is the sum of no_of_passengers over its
\* RideRequests rows and its total_luggage the sum of their luggage_capacity.
C15_TripTotalsAreSums ==
    \A i \in 1..Len(dbTrips) :
        /\ dbTrips[i].no_of_passengers = SumPassengers(dbTrips[i].rideRequests)
        /\ dbTrips[i].total_luggage = SumLuggage(dbTrips[i].rideRequests)

\* the RideRequests rows of one user on the trip with the given id
RowsOfUser(trips, id, u) ==
    IF FindTrip(trips, id) = 0 THEN {}
    ELSE LET rrs == trips[FindTrip(trips, id)].rideRequests
         IN {i \in 1..Len(rrs) : rrs[i].user_id = u}

\* C16: persisting the same caller into the same existing trip twice through
\* the extend-trip path leaves exactly one RideRequests row of the caller on
\* that trip; the second call returns the same trip id and changes no Trips,
\* RideRequests or Cabs row.
C16_ExtendIsIdempotent ==
    \A s \in Slots :
        LET t == task[s]
            first == PersistTx(dbTrips, cabs, t.tripMetaData, t.user_id,
                               t.userMetaData, t.cand.id, t.data, TRUE)
            second == PersistTx(first.trips, first.cabs, t.tripMetaData, t.user_id,
                                t.userMetaData, t.cand.id, t.data, TRUE)
        IN (t.pc = "cmPersist" /\ HasUsers(t.data) /\ first.id # NoId) =>
              /\ second.id = first.id
              /\ second.trips = first.trips
              /\ second.cabs = first.cabs
              /\ Cardinality(RowsOfUser(second.trips, first.id, t.user_id)) = 1

\* the cabs a trip of the given size fits in, before the commit
SufficientCabs(cb, pax, lug) ==
    {c \in DOMAIN cb : /\ cb[c].status = "AVAILABLE"
                        /\ cb[c].no_of_seats >= pax
                        /\ cb[c].luggage_capacity >= lug}

\* C17: after every successful durable commit, an ACTIVE resulting trip with
\* a cab_id has that cab BOOKED; a commit whose resulting trip is WAITING
\* changes no cab's status; the cab chosen was AVAILABLE, has enough seats and
\* luggage capacity for the trip, and has the fewest seats among such cabs.
C17_CabBooking ==
    [][\A s \in Slots :
         (task[s].pc = "cmPersist" /\ task'[s].pc = "cmFull") =>
            LET row == dbTrips'[FindTrip(dbTrips', task'[s].dbTripId)]
                ok == SufficientCabs(cabs, row.no_of_passengers, row.total_luggage)
            IN /\ (row.status = "ACTIVE" /\ row.cab_id # 0) =>
                      cabs'[row.cab_id].status = "BOOKED"
               /\ row.status = "WAITING" => cabs' = cabs
               /\ row.cab_id # 0 =>
                      /\ row.cab_id \in ok
                      /\ \A d \in ok :
                            cabs[row.cab_id].no_of_seats =< cabs[d].no_of_seats]_vars

\* C18: a request whose no_of_passengers exceeds MAX_PASSENGERS or whose
\* luggage exceeds LUGGAGE_CAPACITY is rejected before registration, so no
\* metadata key and no membership record exists for it: every passenger
\* entry of the pool has no_of_passengers <= 3 and luggage <= 4.
C18_OverCapRejectedBeforeRegistration ==
    /\ \A k \in DOMAIN meta \ TripKeys :
          /\ meta[k].no_of_passengers =< MAX_PASSENGERS
          /\ meta[k].luggage =< LUGGAGE_CAPACITY
    /\ \A s \in Slots :
          LET t == task[s]
          IN (IsMatchTask(t) /\ t.pc # "idle"
                /\ (t.userMetaData.no_of_passengers > MAX_PASSENGERS
                      \/ t.userMetaData.luggage > LUGGAGE_CAPACITY)) =>
                MembersOfUser(zset, t.user_id) = {}

\* the trip entries whose status is ACTIVE
ActiveTrips == {k \in TripKeys : meta[k].status = "ACTIVE"}

\* C19: once a trip entry has status ACTIVE it is sealed: the lex set holds
\* no membership record for it, no MATCH_RIDE selects it as a peer, and its
\* member list and totals never change again.
C19_ActiveTripSealed ==
    /\ [](\A k \in ActiveTrips :
            /\ \A m \in zset : m.id # k
            /\ \A s \in Slots : task[s].cand.id # k)
    /\ [][\A k \in ActiveTrips : k \in DOMAIN meta' /\ meta'[k] = meta[k]]_vars

\* an ACTIVE trip was in the pool when a MATCH_RIDE started, and that
\* MATCH_RIDE has run to its end
C19_Witness ==
    \E s \in Slots, k \in ActiveTrips :
        /\ IsMatchTask(task[s])
        /\ task[s].pc = "done"
        /\ k \in DOMAIN snap[s].meta
        /\ snap[s].meta[k].status = "ACTIVE"

\* C20 as stated: WorkerPool.execute dispatches round-robin: the k-th task
\* submitted since init (k = 0, 1, 2, ...) is posted to worker index
\* k mod PoolSize, whatever earlier tasks are still pending and whichever
\* have replied.
C20_RoundRobinSinceInit ==
    \A n \in 1..Len(posted) : posted[n].worker = posted[n].k % PoolSize

\* C20, amended: the k-th task submitted since the pool was constructed
\* (k = 0, 1, 2, ...) is posted to worker index k mod PoolSize, whatever
\* earlier tasks are still pending and whichever have replied; terminate()
\* and a later init() do not restart the rotation.
C20_RoundRobin ==
    \A n \in 1..Len(posted) : posted[n].worker = (n - 1) % PoolSize

\* three tasks were submitted; when the third was, one of the earlier two
\* had replied and the other was still pending
C20_Witness ==
    /\ Len(posted) = 3
    /\ \E p \in pendingTasks : p.taskId = 3
    /\ Cardinality({p \in pendingTasks : p.taskId < 3}) = 1

\* C21: init() resolves only after every worker it created has sent READY;
\* when a worker has not sent READY in time (a worker that reported
\* READY_ERROR included) init() rejects and the pool does not become ready,
\* so that execute() keeps throwing.
C21_InitWaitsForAllReady ==
    /\ [](isReady =>
            /\ Len(workers) >= PoolSize
            /\ \A w \in Batch : workers[w].state = "ready")
    /\ [](initPc = "rejected" => ~isReady)
    /\ [][/\ (initPc = "waiting" /\ initPc' = "rejected") =>
               \E w \in Batch : workers[w].state # "ready"
          /\ (~isReady /\ isReady') => (initPc = "waiting" /\ initPc' = "resolved")
          /\ ~isReady => (posted' = posted /\ pendingTasks' = pendingTasks)
          /\ thrown' # thrown => ~isReady]_vars

\* init() was rejected after a worker reported READY_ERROR, and a later
\* execute() has thrown
C21_Witness ==
    /\ initPc = "rejected"
    /\ \E w \in Batch : workers[w].state = "error"
    /\ \E w \in Batch : workers[w].state = "ready"
    /\ thrown > 0

\* the task of slot s posts its reply in this step
Replies(s) == task[s].pc # "done" /\ task'[s].pc = "done"

\* C22 as stated: the promise of a submitted task is settled at most once
\* and only by the worker message carrying that task's id, resolved with the
\* message's result or rejected with its error; task ids are pairwise
\* distinct; a message whose task id is not pending changes no pending task.
C22_SettledOnlyByOwnMessage ==
    /\ [](/\ \A id \in 1..Len(settled) :
               /\ Len(settled[id]) =< 1
               /\ \A i \in 1..Len(settled[id]) :
                     settled[id][i].by = "message" /\ settled[id][i].taskId = id
          /\ \A i, j \in 1..Len(posted) :
               posted[i].taskId = posted[j].taskId => i = j)
    /\ [][/\ \A s \in Slots :
               Replies(s) =>
                  LET id == TaskIdOf(s)
                  IN IF \E p \in pendingTasks : p.taskId = id
                     THEN /\ pendingTasks' = {p \in pendingTasks : p.taskId # id}
                          /\ settled' = [settled EXCEPT ![id] =
                                 <<SettledBy(WorkerMessage(id, task'[s]))>>]
                     ELSE pendingTasks' = pendingTasks /\ settled' = settled
          /\ \A id \in 1..Len(settled) :
               settled'[id] # settled[id] =>
                  \E s \in Slots : Replies(s) /\ TaskIdOf(s) = id]_vars

\* C22, amended: the promise of a submitted task is settled at most once,
\* either by the worker message carrying that task's id (resolved with the
\* message's result or rejected with its error) or by terminate() rejecting
\* it; task ids are pairwise distinct; a message whose task id is not
\* pending changes no pending task.
C22_SettledOnceByOwnMessage ==
    /\ [](/\ \A id \in 1..Len(settled) :
               /\ Len(settled[id]) =< 1
               /\ \A i \in 1..Len(settled[id]) :
                     settled[id][i].by = "message" => settled[id][i].taskId = id
          /\ \A i, j \in 1..Len(posted) :
               posted[i].taskId = posted[j].taskId => i = j)
    /\ [][/\ \A s \in Slots :
               Replies(s) =>
                  LET id == TaskIdOf(s)
                  IN IF \E p \in pendingTasks : p.taskId = id
                     THEN /\ pendingTasks' = {p \in pendingTasks : p.taskId # id}
                          /\ settled' = [settled EXCEPT ![id] =
                                 <<SettledBy(WorkerMessage(id, task'[s]))>>]
                     ELSE pendingTasks' = pendingTasks /\ settled' = settled
          /\ \A id \in 1..Len(settled) :
               settled'[id] # settled[id] =>
                  \/ settled'[id] = <<Terminated>>
                  \/ \E s \in Slots : Replies(s) /\ TaskIdOf(s) = id]_vars

\* one task was resolved by its worker's result, one was rejected by its
\* worker's error, and the reply of a third came after its promise had been
\* rejected otherwise and was ignored
C22_Witness ==
    /\ \E id \in 1..Len(settled) :
          settled[id] # <<>> /\ settled[id][1].by = "message"
             /\ settled[id][1].kind = "resolved"
    /\ \E id \in 1..Len(settled) :
          settled[id] # <<>> /\ settled[id][1].by = "message"
             /\ settled[id][1].kind = "rejected"
    /\ \E s \in Slots :
          /\ task[s].pc = "done"
          /\ TaskIdOf(s) # 0
          /\ settled[TaskIdOf(s)] = <<Terminated>>

\* C23: terminate() rejects every task pending at that moment with the
\* 'Worker pool terminated' error and leaves no pending task, an empty worker
\* list and the pool not ready; afterwards execute() throws until init() is
\* called again, and a worker result that arrives for a task rejected this
\* way is ignored.
C23_TerminateRejectsPending ==
    [][/\ (workers # <<>> /\ workers' = <<>>) =>
             /\ pendingTasks' = {}
             /\ ~isReady'
             /\ \A id \in 1..Len(settled) :
                   settled'[id] = IF \E p \in pendingTasks : p.taskId = id
                                  THEN <<Terminated>>
                                  ELSE settled[id]
       /\ (workers = <<>> /\ initPc # "waiting") =>
             /\ ~isReady
             /\ pendingTasks = {}
             /\ posted' = posted
             /\ pendingTasks' = pendingTasks
             /\ isReady' = isReady
       /\ \A id \in 1..Len(settled) :
             settled[id] = <<Terminated>> => settled'[id] = settled[id]]_vars

\* a pending task was rejected by terminate(), its worker's reply came
\* later, an execute() threw, and after a second init() a task was posted
C23_Witness ==
    /\ \E s \in Slots :
          /\ task[s].pc = "done"
          /\ TaskIdOf(s) # 0
          /\ settled[TaskIdOf(s)] = <<Terminated>>
    /\ thrown > 0
    /\ inits = 2
    /\ isReady
    /\ \E n \in 1..Len(posted) : n > 1 /\ posted[n].k = 0

\* the worker the task of slot s was posted to
WorkerOf(s) == posted[TaskIdOf(s)].worker

\* the handler of slot s's MATCH_RIDE task has made its first store and has
\* not posted its reply
MatchInFlight(s) ==
    IsMatchTask(task[s]) /\ task[s].pc \notin {"idle", "done", "setMeta"}

\* C24: each worker has at most one matching task in flight: a worker does
\* not start executing a second MATCH_RIDE task before it has posted the
\* result or error of the previous one.
C24_OneMatchPerWorker ==
    \A s1, s2 \in Slots :
        (s1 # s2 /\ MatchInFlight(s1) /\ MatchInFlight(s2)) =>
            WorkerOf(s1) # WorkerOf(s2)

\* C25: a durable trip is cancelled when fewer than two passengers remain:
\* whatever the order and the interleaving of the POST /cancel requests of
\* the riders of a WAITING trip, a trip left with zero or one RideRequests
\* row has status CANCELLED and is never left WAITING.
C25_FewRidersCancelled ==
    \A i \in 1..Len(dbTrips) :
        Len(dbTrips[i].rideRequests) =< 1 => dbTrips[i].status = "CANCELLED"

\* the two riders of a WAITING trip both read it before either committed;
\* one request was answered 200 and the other 500, and the trip is left
\* with one RideRequests row
C25_Witness ==
    /\ cancel[1].pc = "done" /\ cancel[2].pc = "done"
    /\ cancel[1].user_id # cancel[2].user_id
    /\ {cancel[1].reply, cancel[2].reply} = {200, 500}
    /\ cancel[1].trip = cancel[2].trip
    /\ \E i \in 1..Len(dbTrips) :
          /\ dbTrips[i].id = cancel[1].trip.id
          /\ Len(dbTrips[i].rideRequests) = 1
          /\ dbTrips[i].status = "CANCELLED"

(***************************************************************************)
(* C26.  After POST /cancel on a two-rider WAITING trip has answered 200   *)
(* and the cleanup messages it posted have been handled, the pool holds no *)
(* trip member and no trip metadata that lists either rider of the trip.   *)
(***************************************************************************)
CleanedUp(c) ==
    /\ cancel[c].pc = "done"
    /\ cancel[c].reply = 200
    /\ Scenario(Len(cancel[c].trip.rideRequests)) = "TRIP_CANCELLED"
    /\ queued = <<>>
    /\ AllIdle

C26_CancelledTripLeavesPool ==
    \A c \in CancelSlots :
        CleanedUp(c) =>
            \A k \in TripKeys :
                /\ MembersOf(meta[k]) \cap RidersOf(cancel[c].trip) = {}
                /\ MembersOfUser(zset, k) = {}

(***************************************************************************)
(* C27.  After a pairing of two solo passengers, the issued_price of each  *)
(* of the two durable RideRequests is ceil(0.7 x the passenger's original  *)
(* issued price).                                                          *)
(***************************************************************************)
DiscountedPrice(price) == CeilDiv(7 * price, 10)

C27_PairPaysSeventyPercent ==
    \A i \in 1..Len(dbTrips) :
        Len(dbTrips[i].rideRequests) = 2 =>
            \A j \in 1..2 :
                dbTrips[i].rideRequests[j].issued_price = DiscountedPrice(BASE_PRICE)

(***************************************************************************)
(* The matcher over a fixed road network: the routing API answers every    *)
(* lookup, and the distance of a lookup depends on its two cells only.     *)
(***************************************************************************)
\* driving distance in metres to each destination cell from another cell;
\* no route leads to cell 5, and a lookup of it fails
Roads == (2 :> 2500) @@ (3 :> 1500) @@ (4 :> 1500) @@ (5 :> DETOUR_ERROR_M)
         @@ (6 :> 3500)

\* what fetchRouteDistance returns: data.routes[0].distanceMeters, or the
\* value of its catch block
RoadDistance(origin, destination) ==
    IF origin = destination THEN 0 ELSE Roads[destination]

\* splitPointH3 and candidateDestH3 of a Step 2 candidate, and the distance
\* the lookup between them reports
DetourTo(route, candidateRoute) ==
    RoadDistance(route[CommonCells(route, candidateRoute)],
                 candidateRoute[Len(candidateRoute)])

\* the distance the lookup of a task waiting for it reports
DetourOf(t) == IF t.pc = "detour" THEN DetourTo(t.route, t.cand.route) ELSE 0

\* riders whose routes leave the airport through cell 1 and then part
DetourRequests ==
    {Request(User(1), r, p, 1) : r \in {<<1, 2>>, <<1, 3>>, <<1, 5>>}, p \in {2, 3}}
    \cup {Request(User(2), r, p, 1) : r \in {<<1, 2>>, <<1, 4>>, <<2>>}, p \in {1, 2}}
    \cup {Request(User(3), r, 1, 1) : r \in {<<1>>, <<1, 3>>, <<1, 4>>, <<1, 6>>}}

\* riders register one at a time
NextDetour ==
    \/ \E q \in DetourRequests :
          /\ started < MaxSeqTasks
          /\ AllIdle
          /\ StartMatch(1, q.user_id, q.route, q.pax, q.lug, Snapshot)
          /\ UNCHANGED <<wpVars, restVars>>
    \/ Step(1, NoFailure, {DetourOf(task[1])}) /\ UNCHANGED <<wpVars, restVars>>

SpecDetour == Init /\ [][NextDetour]_vars

(***************************************************************************)
(* C28.  A candidate that fails the capacity check or is stale is skipped  *)
(* and has no influence on a later candidate of the same scan: when the    *)
(* Step 1a candidate is refused and a later non-self member of the         *)
(* superset scan would be accepted, Step 1a tries the next non-self        *)
(* member; and a Step 2 candidate with detour < 3000 m that would be       *)
(* accepted goes to the capacity check, whatever was refused before it.    *)
(***************************************************************************)
\* checkMatchConstraints would accept this member for the task now
Passes(t, m) ==
    /\ Get(m.id) # Null
    /\ ~OverCapacity(Get(m.id), t.userMetaData)

RECURSIVE NotSelf(_, _)
\* filter(c => !c.includes(user_id))
NotSelf(s, user_id) ==
    IF s = <<>> THEN <<>>
    ELSE (IF ~IncludesUser(Head(s), user_id) THEN <<Head(s)>> ELSE <<>>)
         \o NotSelf(Tail(s), user_id)

\* the non-self members of the superset scan of the task, in scan order
SupersetScan(t) ==
    NotSelf(ZRangeByLex(zset, t.route, t.route \o <<XFF>>, SCAN_LIMIT), t.user_id)

\* the members of a scan after member m
After(scan, m) ==
    LET I == {i \in 1..Len(scan) : scan[i] = m}
    IN IF I = {} THEN <<>>
       ELSE SubSeq(scan, (CHOOSE i \in I : TRUE) + 1, Len(scan))

C28_Step1aGoesOn ==
    LET t == task[1]
        rest == After(SupersetScan(t), t.cand)
    IN (/\ t.pc = "cmGet" /\ t.step = "1a"
        /\ ~Passes(t, t.cand)
        /\ task'[1] # t
        /\ \E i \in 1..Len(rest) : Passes(t, rest[i]))
       => (/\ task'[1].pc = "cmGet" /\ task'[1].step = "1a"
           /\ task'[1].cand = rest[1])

C28_Step2NotBlocked ==
    LET t == task[1]
    IN (/\ t.pc = "detour"
        /\ task'[1] # t
        /\ DetourOf(t) < DETOUR_MAX_M
        /\ Passes(t, t.cand))
       => (task'[1].pc = "cmGet" /\ task'[1].cand = t.cand)

C28_RejectedCandidateSkipped == [][C28_Step1aGoesOn /\ C28_Step2NotBlocked]_vars

(***************************************************************************)
(* C29.  Within Step 2 the minimum detour wins: the peer of a BEST_DETOUR  *)
(* result has the smallest detour among the neighbourhood candidates that  *)
(* share a leading cell with the caller, have detour < 3000 m and pass the *)
(* capacity check, and among equal detours it is the first scanned.        *)
(***************************************************************************)
\* allNeighbors of a task whose registration was added to pool z
Neighbourhood(z, t) ==
    FilterNeighbors(ZRevRangeBelow(z, t.route, SCAN_LIMIT)
                       \o ZRangeAbove(z, t.route, SCAN_LIMIT), t.user_id)

\* a Step 2 candidate that may be committed, judged on the metadata `md`
Eligible(md, t, m) ==
    /\ CommonCells(t.route, m.route) > 0
    /\ DetourTo(t.route, m.route) < DETOUR_MAX_M
    /\ m.id \in DOMAIN md
    /\ ~OverCapacity(md[m.id], t.userMetaData)

C29_MinimumDetourWins ==
    LET t == task[1]
        nb == Neighbourhood(snap[1].zset \cup {OwnMember(t)}, t)
        E == {i \in 1..Len(nb) : Eligible(snap[1].meta, t, nb[i])}
    IN (t.pc = "done" /\ IsMatchTask(t) /\ t.result.match_type = "BEST_DETOUR") =>
          \E w \in E :
              /\ nb[w].id = t.result.user_id
              /\ \A i \in E :
                     \/ DetourTo(t.route, nb[w].route) < DetourTo(t.route, nb[i].route)
                     \/ /\ DetourTo(t.route, nb[w].route) = DetourTo(t.route, nb[i].route)
                        /\ w =< i

(***************************************************************************)
(* C30.  A Step 2 candidate is committed only if it shares at least one    *)
(* whole leading cell with the caller and its detour is strictly below     *)
(* 3000 m; and a lookup that fails (distance 9999999) makes the candidate  *)
(* ineligible: the task goes on to a later candidate or returns the        *)
(* result NONE, it does not fail.                                          *)
(***************************************************************************)
CommitPcs ==
    {"cmZrem", "cmDel", "cmTripRoute", "cmTripMeta", "cmPersist", "cmFull", "cmPublish"}

\* the task has committed its Step 2 candidate
CommittedInStep2(t) ==
    /\ IsMatchTask(t)
    /\ \/ t.step = "2" /\ t.pc \in CommitPcs
       \/ t.pc = "done" /\ t.result.match_type = "BEST_DETOUR"

C30_CommittedIsNearAndShares ==
    CommittedInStep2(task[1]) =>
        /\ CommonCells(task[1].route, task[1].cand.route) > 0
        /\ DetourTo(task[1].route, task[1].cand.route) < DETOUR_MAX_M

C30_FailedLookupSkips ==
    LET t == task[1]
    IN (t.pc = "detour" /\ DetourOf(t) = DETOUR_ERROR_M /\ task'[1] # t) =>
          \/ task'[1].pc = "detour" /\ task'[1].idx > t.idx
          \/ task'[1].pc = "done" /\ task'[1].result = NoneResult

C30_Step2Threshold == []C30_CommittedIsNearAndShares /\ [][C30_FailedLookupSkips]_vars

\* a rider is committed to a Step 2 peer after the lookup of a candidate
\* scanned before that peer had failed
C30_Witness ==
    LET t == task[1]
        nb == Neighbourhood(snap[1].zset \cup {OwnMember(t)}, t)
    IN /\ t.pc = "done" /\ IsMatchTask(t)
       /\ t.result.match_type = "BEST_DETOUR"
       /\ t.result.detour_distance_meters < DETOUR_MAX_M
       /\ \E w \in 1..Len(nb), f \in 1..Len(nb) :
             /\ nb[w].id = t.result.user_id
             /\ f < w
             /\ CommonCells(t.route, nb[f].route) > 0
             /\ DetourTo(t.route, nb[f].route) = DETOUR_ERROR_M

(***************************************************************************)
(* C31.  When a trip that is not full is formed, the route of its member   *)
(* in the sorted set is the longer of the caller's and the peer's routes   *)
(* (the caller's when they are equally long), followed by the trip id.     *)
(***************************************************************************)
LongerRoute(requestingUserRoute, matchedUserRoute) ==
    IF Len(requestingUserRoute) >= Len(matchedUserRoute)
    THEN requestingUserRoute ELSE matchedUserRoute

C31_TripRouteIsLonger ==
    \A s \in Slots :
        (IsMatchTask(task[s]) /\ task[s].pc = "cmTripMeta" /\ ~task[s].sealed) =>
            Member(LongerRoute(task[s].route, task[s].cand.route), task[s].tripKey)
                \in zset

(***************************************************************************)
(* generateH3IndexesForRoute: the cells of a route.  Cells are numbered    *)
(* along a line, so that the grid path between two cells is the run of     *)
(* numbers between them.                                                   *)
(***************************************************************************)
Cells == {1, 2, 3}
MaxPoints == 3

RangeOf(seq) == {seq[i] : i \in 1..Len(seq)}

\* Set.prototype.add on a set kept in insertion order
AddCell(seq, c) == IF c \in RangeOf(seq) THEN seq ELSE Append(seq, c)

RECURSIVE AddCells(_, _)
\* cells.forEach(cell => set.add(cell))
AddCells(seq, cells) ==
    IF cells = <<>> THEN seq ELSE AddCells(AddCell(seq, Head(cells)), Tail(cells))

\* gridPathCells(start, end): both ends and the cells between them
GridPathCells(start, end) ==
    [i \in 1..((IF start =< end THEN end - start ELSE start - end) + 1) |->
        IF start =< end THEN start + i - 1 ELSE start - i + 1]

RECURSIVE FillFrom(_, _, _, _)
\* the loop of fillRouteGaps from index i on
FillFrom(h3Indexes, i, filledIndexes, throws) ==
    IF i > Len(h3Indexes) - 1 THEN filledIndexes
    ELSE FillFrom(h3Indexes, i + 1,
                  IF throws THEN AddCell(filledIndexes, h3Indexes[i + 1])
                  ELSE AddCells(filledIndexes,
                                GridPathCells(h3Indexes[i], h3Indexes[i + 1])),
                  throws)

FillRouteGaps(h3Indexes, throws) ==
    IF Len(h3Indexes) < 2 THEN h3Indexes
    ELSE FillFrom(h3Indexes, 1, <<h3Indexes[1]>>, throws)

\* faulty variant of PathH3Indexes: the destination cell is never added
PathH3IndexesNoPush(routeH3Indexes, destinationH3, fillGaps, throws) ==
    LET uniqueH3Indexes == AddCells(<<>>, routeH3Indexes)
    IN IF fillGaps THEN FillRouteGaps(uniqueH3Indexes, throws) ELSE uniqueH3Indexes

\* steps 4 to 6 of generateH3IndexesForRoute: pathH3Indexes
PathH3Indexes(routeH3Indexes, destinationH3, fillGaps, throws) ==
    LET uniqueH3Indexes == AddCells(<<>>, routeH3Indexes)
        filled == IF fillGaps THEN FillRouteGaps(uniqueH3Indexes, throws)
                  ELSE uniqueH3Indexes
    IN IF destinationH3 \in RangeOf(filled) THEN filled
       ELSE Append(filled, destinationH3)

\* the cell sequences of the points of a route, up to MaxPoints points
RoutePoints == UNION {[1..n -> Cells] : n \in 0..MaxPoints}

\* the call up to its await of fetchRouteFromGoogle
GenerateCall ==
    /\ h3.pc # "fetch"
    /\ \E d \in Cells, g \in BOOLEAN :
          h3' = [IdleCall EXCEPT !.pc = "fetch", !.destinationH3 = d, !.fillGaps = g]
    /\ UNCHANGED <<coreVars, cancelVars, startVars, wsVars>>

\* the routing API answers and the function returns
GenerateReturn ==
    /\ h3.pc = "fetch"
    /\ \E pts \in RoutePoints, throws \in BOOLEAN :
          h3' = [h3 EXCEPT !.pc = "returned", !.routeH3Indexes = pts,
                           !.pathH3Indexes =
                               PathH3Indexes(pts, h3.destinationH3, h3.fillGaps, throws)]
    /\ UNCHANGED <<coreVars, cancelVars, startVars, wsVars>>

\* the routing API fails and the function rethrows
GenerateThrows ==
    /\ h3.pc = "fetch"
    /\ h3' = [h3 EXCEPT !.pc = "threw"]
    /\ UNCHANGED <<coreVars, cancelVars, startVars, wsVars>>

NextRoute == GenerateCall \/ GenerateReturn \/ GenerateThrows

SpecRoute == Init /\ [][NextRoute]_vars

(***************************************************************************)
(* C32.  For every route generateH3IndexesForRoute returns, the last cell  *)
(* of pathH3Indexes is the destination cell, also when the destination     *)
(* cell occurs before the end of the path.                                 *)
(***************************************************************************)
C32_LastCellIsDestination ==
    h3.pc = "returned" =>
        /\ h3.pathH3Indexes # <<>>
        /\ h3.pathH3Indexes[Len(h3.pathH3Indexes)] = h3.destinationH3

(***************************************************************************)
(* C33.  Once the close handler of a user's WebSocket has completed, the   *)
(* user is not reachable through any entry of the pool: no member of the   *)
(* sorted set is the user's own, and none is a trip whose metadata lists   *)
(* the user.                                                               *)
(***************************************************************************)
\* the user can be paired through member m of the sorted set
ReachableThrough(m, u) ==
    \/ m.id = u
    \/ m.id \in TripKeys /\ u \in MembersOf(meta[m.id])

C33_ClosedUserUnreachable ==
    \A s \in Slots :
        (task[s].type = "REMOVE_USER" /\ task[s].pc = "done") =>
            \A m \in zset : ~ReachableThrough(m, task[s].user_id)

(***************************************************************************)
(* C34.  The status of every durable RideRequest equals the status of its  *)
(* trip after every committed write of the matcher, of POST /cancel and of *)
(* POST /start, however the three interleave on a trip.                    *)
(***************************************************************************)
C34_RequestTracksTrip ==
    \A i \in 1..Len(dbTrips) :
        \A j \in 1..Len(dbTrips[i].rideRequests) :
            dbTrips[i].rideRequests[j].status = dbTrips[i].status

\* a trip has been started after one of its riders had cancelled it: both
\* requests had read the trip while it was WAITING
C34_Witness ==
    /\ startRide.pc = "done" /\ startRide.reply = 200
    /\ cancel[1].pc = "done" /\ cancel[1].reply \in {200, 500}
    /\ cancel[1].trip # Null
    /\ cancel[1].trip.id = startRide.trip.id
    /\ \E i \in 1..Len(dbTrips) :
          /\ dbTrips[i].id = startRide.trip.id
          /\ dbTrips[i].status = "ACTIVE"
          /\ Len(dbTrips[i].rideRequests) = 1

(***************************************************************************)
(* C35.  When two requesters whose routes are prefix-related and who fit   *)
(* the caps together run MATCH_RIDE concurrently against an otherwise      *)
(* empty pool, then once both tasks have finished at least one of them     *)
(* returned a match and both are members of a common trip.                 *)
(***************************************************************************)
PrefixRelated(a, b) == StartsWith(a, b) \/ StartsWith(b, a)

\* the two tasks are the only ones so far, ran at the same time and are done
BothFinished ==
    /\ started = 2
    /\ \A s \in Slots : IsMatchTask(task[s]) /\ task[s].pc = "done"
    /\ task[1].user_id # task[2].user_id
    /\ PrefixRelated(task[1].route, task[2].route)
    /\ ~OverCapacity(task[1].userMetaData, task[2].userMetaData)

C35_ConcurrentPairMatches ==
    BothFinished =>
        /\ \E s \in Slots : task[s].result.match_type # "NONE"
        /\ \E k \in TripKeys : {task[1].user_id, task[2].user_id} \subseteq MembersOf(meta[k])
        /\ \A s \in Slots : MembersOfUser(zset, task[s].user_id) = {}

\* the second task registered before the first had finished its scans, and
\* was the one that found the other
C35_Witness ==
    /\ BothFinished
    /\ task[1].result.match_type = "NONE"
    /\ task[2].result.match_type = "DIRECT"
    /\ Cardinality(TripKeys) = 1

(***************************************************************************)
(* C36.  When a caller has joined a forming trip and the publish was       *)
(* accepted, every passenger who was a member of the trip before has been  *)
(* sent a RIDE_MATCHED message on their own user topic.                    *)
(***************************************************************************)
\* the task has joined the trip entry it found in the pool
JoinedTrip(t) ==
    /\ IsMatchTask(t) /\ t.pc = "done"
    /\ t.result.match_type # "NONE"
    /\ t.cand.id[1] = "TRIP"

C36_MembersNotifiedOnJoin ==
    (JoinedTrip(task[1]) /\ task[1].pubOk) =>
        \A u \in MembersOf(snap[1].meta[task[1].cand.id]) :
            \E i \in (Len(snap[1].published) + 1)..Len(published) :
                /\ published[i].topic = u
                /\ published[i].type = "RIDE_MATCHED"

(***************************************************************************)
(* C37.  No cab is referenced by two durable trips that are both WAITING   *)
(* or ACTIVE, and a cancel that releases a booked cab to AVAILABLE never   *)
(* frees a cab that a WAITING or ACTIVE trip still references.             *)
(***************************************************************************)
LiveTrips == {i \in 1..Len(dbTrips) : dbTrips[i].status \in {"WAITING", "ACTIVE"}}

C37_NoSharedCab ==
    \A i \in LiveTrips, j \in LiveTrips :
        (i # j /\ dbTrips[i].cab_id # 0) => dbTrips[i].cab_id # dbTrips[j].cab_id

\* a step that makes a booked cab AVAILABLE leaves no live trip with that cab
C37_ReleaseIsSafe ==
    \A c \in DOMAIN cabs :
        (cabs[c].status = "BOOKED" /\ cabs'[c].status = "AVAILABLE") =>
            \A i \in 1..Len(dbTrips') :
                dbTrips'[i].status \in {"WAITING", "ACTIVE"} => dbTrips'[i].cab_id # c

C37_CabOfOneLiveTrip == []C37_NoSharedCab /\ [][C37_ReleaseIsSafe]_vars

(***************************************************************************)
(* C38: a durable trip's status moves only forward: a CANCELLED or         *)
(* COMPLETED trip never changes its status again and an ACTIVE trip never  *)
(* returns to WAITING, whatever the interleaving of POST /cancel,          *)
(* POST /start and the matcher's update of the same trip.                  *)
(***************************************************************************)
C38_FinalStays ==
    \A i \in 1..Len(dbTrips) :
        dbTrips[i].status \in {"CANCELLED", "COMPLETED"} =>
            dbTrips'[i].status = dbTrips[i].status

C38_ActiveNotBack ==
    \A i \in 1..Len(dbTrips) :
        dbTrips[i].status = "ACTIVE" => dbTrips'[i].status # "WAITING"

C38_StatusMovesForward == [][C38_FinalStays /\ C38_ActiveNotBack]_vars

(***************************************************************************)
(* The handler behind its lazy initialization, with workers that keep      *)
(* running.  A pool whose first init() failed keeps that batch of workers  *)
(* in front of the next one, so a ready pool can post a task to a worker   *)
(* whose initialize() has not succeeded.                                   *)
(***************************************************************************)
MaxFairTasks == 2

\* isInitialized of the worker that handles slot s's task; the workers of a
\* terminated pool no longer run the check
IsInitialized(s) ==
    TaskIdOf(s) # 0 =>
        LET w == WorkerOf(s) + 1
        IN w \in 1..Len(workers) => workers[w].state = "ready"

\* the handler has not gone past `if (!isInitialized) await initialize()`
AtEntry(s) == task[s].pc \in {"setMeta", "ruScan", "unknown", "rmTrip"}

\* await initialize() resolves on a worker whose start-up initialize() failed
LazyInitialize(s) ==
    /\ AtEntry(s)
    /\ ~IsInitialized(s)
    /\ workers[WorkerOf(s) + 1].state = "error"
    /\ workers' = [workers EXCEPT ![WorkerOf(s) + 1].state = "ready"]
    /\ UNCHANGED <<isReady, nextWorkerIndex, taskIdCounter, pendingTasks, posted,
                   initPc, inits, sinceInit, settled, thrown>>
    /\ UNCHANGED <<poolVars, task, started, dbVars, published, snap>>

\* await initialize() rejects: it stands before the try block, so the
\* handler ends without posting a message
LazyInitializeThrows(s) ==
    /\ AtEntry(s)
    /\ ~IsInitialized(s)
    /\ task' = Set(s, [task[s] EXCEPT !.pc = "lost"])
    /\ UNCHANGED <<poolVars, started, dbVars, published, snap, wpVars>>

\* a REMOVE_USER_FROM_TRIP task
StartRemoveFromTrip(s, user_id) ==
    /\ Free(s)
    /\ task' = Set(s, [IdleTask EXCEPT !.pc = "rmTrip",
                                       !.type = "REMOVE_USER_FROM_TRIP",
                                       !.user_id = user_id])
    /\ started' = started + 1
    /\ snap' = [snap EXCEPT ![s] = Null]
    /\ UNCHANGED <<poolVars, dbVars, published>>

\* await removeUserFromTripMetadata(userId): the call returns or throws
RemoveFromTripCall(s) ==
    /\ task[s].pc = "rmTrip"
    /\ \E throws \in BOOLEAN :
          task' = Set(s, [task[s] EXCEPT !.pc = IF throws THEN "rmThrown" ELSE "rmDone"])
    /\ UNCHANGED <<poolVars, started, dbVars, published, snap>>

\* postMessage({taskId, result: {success: true}})
ReplyRemoveFromTrip(s) ==
    /\ task[s].pc = "rmDone"
    /\ task' = Set(s, Finished(task[s], [success |-> TRUE]))
    /\ UNCHANGED <<poolVars, started, dbVars, published, snap>>

\* the catch block: postMessage({taskId, error})
RemoveFromTripThrows(s) ==
    /\ task[s].pc = "rmThrown"
    /\ task' = Set(s, Finished(task[s], [error |-> "removeUserFromTripMetadata"]))
    /\ UNCHANGED <<poolVars, started, dbVars, published, snap>>

\* one step of the handler of slot s
HandlerStep(s) ==
    \/ IsInitialized(s) /\ PoolStep(s) /\ OnWorkerMessage(s) /\ UNCHANGED restVars
    \/ /\ IsInitialized(s)
       /\ RemoveFromTripCall(s)
       /\ OnWorkerMessage(s)
       /\ UNCHANGED restVars
    \/ /\ IsInitialized(s)
       /\ ReplyRemoveFromTrip(s)
       /\ OnWorkerMessage(s)
       /\ UNCHANGED restVars
    \/ /\ IsInitialized(s)
       /\ RemoveFromTripThrows(s)
       /\ OnWorkerMessage(s)
       /\ UNCHANGED restVars
    \/ LazyInitialize(s) /\ UNCHANGED restVars
    \/ LazyInitializeThrows(s) /\ UNCHANGED restVars

\* the life of the pool, every task type, behind the lazy initialization
NextFair ==
    \/ InitCall /\ UNCHANGED restVars
    \/ \E w \in 1..Len(workers) : WorkerReady(w) /\ UNCHANGED restVars
    \/ \E w \in 1..Len(workers) : WorkerReadyError(w) /\ UNCHANGED restVars
    \/ \E w \in 1..Len(workers) : ReadyTimeout(w) /\ UNCHANGED restVars
    \/ Terminate /\ UNCHANGED restVars
    \/ \E s \in Slots, q \in PoolRequests :
          /\ started < MaxFairTasks
          /\ FreeSlot(s)
          /\ StartMatch(s, q.user_id, q.route, q.pax, q.lug, Null)
          /\ Execute(s)
          /\ UNCHANGED restVars
    \/ \E s \in Slots, u \in RemovedUsers :
          /\ started < MaxFairTasks
          /\ FreeSlot(s)
          /\ StartRemove(s, u, Null)
          /\ Execute(s)
          /\ UNCHANGED restVars
    \/ \E s \in Slots, u \in RemovedUsers :
          /\ started < MaxFairTasks
          /\ FreeSlot(s)
          /\ StartRemoveFromTrip(s, u)
          /\ Execute(s)
          /\ UNCHANGED restVars
    \/ \E s \in Slots :
          /\ started < MaxFairTasks
          /\ FreeSlot(s)
          /\ StartUnknownType(s)
          /\ Execute(s)
          /\ UNCHANGED restVars
    \/ \E s \in Slots : HandlerStep(s)

\* the workers keep running: a handler that can take a step takes one
SpecFair == Init /\ [][NextFair]_vars /\ \A s \in Slots : WF_vars(HandlerStep(s))

\* the promise of task id is neither resolved nor rejected
Pending(id) == \E p \in pendingTasks : p.taskId = id

(***************************************************************************)
(* C39: every task accepted by execute while the pool is ready is          *)
(* eventually resolved or rejected, by a worker reply or by terminate, for *)
(* every task type and also when the handler or the lazy initialization of *)
(* the worker throws, as long as the workers keep running.                 *)
(***************************************************************************)
C39_EveryTaskSettles ==
    \A id \in 1..MaxFairTasks : Pending(id) ~> ~Pending(id)

(***************************************************************************)
(* Notifications: the WebSocket handler's open and close, and the          *)
(* subscriptions of pubSubService.  A command of the subscriber takes      *)
(* effect in the order it is issued; the handler resumes in a later step.  *)
(***************************************************************************)
MaxPublishes == 2

\* subscriber.unsubscribe(channel): every listener of the channel is dropped
Unsubscribe(l, userId) == [l EXCEPT ![userId] = 0]

\* subscriber.subscribe(channel, listener): one more listener on the channel
Subscribe(l, userId) == [l EXCEPT ![userId] = @ + 1]

\* the connection is accepted and open(ws) starts: rideRequests.findFirst
WsOpen(c) ==
    /\ conn[c].readyState = "connecting"
    /\ conn' = [conn EXCEPT ![c].readyState = "open", ![c].open = "findFirst"]
    /\ UNCHANGED <<callbacks, listeners, wsPublished>>
    /\ UNCHANGED <<coreVars, cancelVars, h3Vars, startVars>>

\* pubSubService.subscribe(userId, callback) up to its first await: with a
\* callback registered it calls unsubscribe, else it sets the callback and
\* subscribes
OpenSubscribe(c) ==
    LET userId == UserOf(c)
        has == userId \in DOMAIN callbacks
    IN /\ conn[c].open = "findFirst"
       /\ callbacks' = IF has THEN callbacks ELSE SetKey(callbacks, userId, c)
       /\ listeners' = IF has THEN Unsubscribe(listeners, userId)
                       ELSE Subscribe(listeners, userId)
       /\ conn' = [conn EXCEPT ![c].open = IF has THEN "unsubscribe" ELSE "subscribe"]
       /\ UNCHANGED wsPublished
       /\ UNCHANGED <<coreVars, cancelVars, h3Vars, startVars>>

\* unsubscribe resumes and deletes the callback; subscribe goes on: it sets
\* the callback and subscribes
OpenResubscribe(c) ==
    LET userId == UserOf(c)
    IN /\ conn[c].open = "unsubscribe"
       /\ callbacks' = SetKey(DelKeys(callbacks, {userId}), userId, c)
       /\ listeners' = Subscribe(listeners, userId)
       /\ conn' = [conn EXCEPT ![c].open = "subscribe"]
       /\ UNCHANGED wsPublished
       /\ UNCHANGED <<coreVars, cancelVars, h3Vars, startVars>>

\* subscribe returns and open(ws) sends CONNECTED
OpenDone(c) ==
    /\ conn[c].open = "subscribe"
    /\ conn' = [conn EXCEPT ![c].open = "done"]
    /\ UNCHANGED <<callbacks, listeners, wsPublished>>
    /\ UNCHANGED <<coreVars, cancelVars, h3Vars, startVars>>

\* the socket closes and close(ws) starts: removeUserFromPool
WsClose(c) ==
    /\ conn[c].readyState = "open"
    /\ conn' = [conn EXCEPT ![c].readyState = "closed", ![c].close = "remove"]
    /\ UNCHANGED <<callbacks, listeners, wsPublished>>
    /\ UNCHANGED <<coreVars, cancelVars, h3Vars, startVars>>

\* removeUserFromPool has returned; pubSubService.unsubscribe(userId) up to
\* its await
CloseUnsubscribe(c) ==
    LET userId == UserOf(c)
    IN /\ conn[c].close = "remove"
       /\ zset' = zset \ UserMembers(zset, userId)
       /\ meta' = DelKeys(meta, {userId})
       /\ listeners' = Unsubscribe(listeners, userId)
       /\ conn' = [conn EXCEPT ![c].close = "unsubscribe"]
       /\ UNCHANGED <<callbacks, wsPublished>>
       /\ UNCHANGED <<uuids, task, started, dbVars, published, snap, wpVars>>
       /\ UNCHANGED <<cancelVars, h3Vars, startVars>>

\* unsubscribe resumes: callbacks.delete(userId)
CloseDelete(c) ==
    /\ conn[c].close = "unsubscribe"
    /\ callbacks' = DelKeys(callbacks, {UserOf(c)})
    /\ conn' = [conn EXCEPT ![c].close = "done"]
    /\ UNCHANGED <<listeners, wsPublished>>
    /\ UNCHANGED <<coreVars, cancelVars, h3Vars, startVars>>

\* publish(userId, data): each listener of the channel calls the registered
\* callback, which sends the message when its socket is open
WsPublish(userId) ==
    LET cb == IF userId \in DOMAIN callbacks THEN callbacks[userId] ELSE 0
        sends == cb # 0 /\ conn[cb].readyState = "open"
    IN /\ Len(wsPublished) < MaxPublishes
       /\ wsPublished' = Append(wsPublished, userId)
       /\ conn' = IF sends THEN [conn EXCEPT ![cb].received = @ + listeners[userId]]
                  ELSE conn
       /\ UNCHANGED <<callbacks, listeners>>
       /\ UNCHANGED <<coreVars, cancelVars, h3Vars, startVars>>

\* connections open and close, and messages are published, in any order
NextWs ==
    \/ \E c \in Conns : WsOpen(c)
    \/ \E c \in Conns : OpenSubscribe(c)
    \/ \E c \in Conns : OpenResubscribe(c)
    \/ \E c \in Conns : OpenDone(c)
    \/ \E c \in Conns : WsClose(c)
    \/ \E c \in Conns : CloseUnsubscribe(c)
    \/ \E c \in Conns : CloseDelete(c)
    \/ \E c \in Conns : WsPublish(UserOf(c))

SpecWs == Init /\ [][NextWs]_vars

\* the connections of userId that are open and whose open handler has completed
Connected(userId) ==
    {c \in Conns : /\ UserOf(c) = userId
                   /\ conn[c].readyState = "open"
                   /\ conn[c].open = "done"}

\* the registered callback of a user belongs to one of its connections
C40_OneCallback ==
    \A userId \in DOMAIN callbacks :
        callbacks[userId] \in Conns /\ UserOf(callbacks[userId]) = userId

\* a message published to a user with a connected socket reaches an open
\* socket of that user
C40_Forwarded ==
    \A userId \in Users :
        ( /\ Len(wsPublished') = Len(wsPublished) + 1
          /\ wsPublished'[Len(wsPublished')] = userId
          /\ Connected(userId) # {} ) =>
            \E c \in Conns : /\ UserOf(c) = userId
                              /\ conn[c].readyState = "open"
                              /\ conn'[c].received > conn[c].received

\* a step of the close handler of a connection whose open handler had
\* completed leaves the callback and the listeners of a later connection
C40_CloseKeepsNewer ==
    \A c \in Conns :
        ( /\ conn'[c].close # conn[c].close
          /\ conn[c].open = "done"
          /\ UserOf(c) \in DOMAIN callbacks
          /\ callbacks[UserOf(c)] # c ) =>
            /\ UserOf(c) \in DOMAIN callbacks'
            /\ callbacks'[UserOf(c)] = callbacks[UserOf(c)]
            /\ listeners'[UserOf(c)] >= listeners[UserOf(c)]

(***************************************************************************)
(* C40: each user has at most one registered notification callback at a    *)
(* time; while a user has an open connection whose open handler has        *)
(* completed, a message published to the user's topic is forwarded to an   *)
(* open socket; and the close of an older connection of a user does not    *)
(* remove the subscription created by a newer connection.                  *)
(***************************************************************************)
C40_OneForwardedCallback ==
    []C40_OneCallback /\ [][C40_Forwarded /\ C40_CloseKeepsNewer]_vars

=============================================================================
